---- MODULE Spec2Model ----
(***************************************************************************)
(* A model of homebridge-smartthings-webhook: the SmartApp lifecycle       *)
(* handler (src/webhook/smartAppHandler.ts), the webhook server            *)
(* (src/webhook/webhookServer.ts), the event dispatcher and legacy polling *)
(* loop (src/webhook/subscriptionHandler.ts) and the crash-loop manager.   *)
(*                                                                         *)
(* Asynchronous handlers are modelled as tasks: one action runs a handler  *)
(* from one suspension point (await) to the next, so handlers interleave   *)
(* exactly where the code can suspend.  The SmartThings subscription API   *)
(* and the file system are the environment: a call may succeed or fail.    *)
(***************************************************************************)
EXTENDS Integers, Sequences, FiniteSets, TLC

(***************************************************************************)
(* Bounds of the model.                                                    *)
(***************************************************************************)
\* requests accepted by the server plus setDeviceIds calls in one behaviour
MaxReqs == 2
\* items of one EVENT message's event list
MaxEvents == 2
\* remote calls and credential writes that fail in one behaviour
MaxFaults == 2

(***************************************************************************)
(* Values.                                                                 *)
(***************************************************************************)
\* JavaScript null, and undefined (a property read from an object lacking it)
Null == "null"
Undef == "undefined"
\* an optional object that is missing (x?.y on it is undefined)
Absent == [absent |-> TRUE]

Slots == {"s1", "s2"}
DeviceIdSet == {"d1", "d2", "d3"}
AppIdSet == {"a1", "a2"}

\* JavaScript truthiness of a string-or-null value
Truthy(v) == v # Null /\ v # Undef /\ v # ""

\* obj.field of a payload object that may lack the field
Get(obj, f) == IF f \in DOMAIN obj THEN obj[f] ELSE Undef

\* a || null
OrNull(v) == IF Truthy(v) THEN v ELSE Null

RECURSIVE SeqFilter(_, _)
\* Array.prototype.filter with the predicate "is not in drop"
SeqFilter(s, drop) ==
  IF s = <<>> THEN <<>>
  ELSE IF Head(s) \in drop THEN SeqFilter(Tail(s), drop)
       ELSE <<Head(s)>> \o SeqFilter(Tail(s), drop)

Range(s) == {s[k] : k \in DOMAIN s}

(***************************************************************************)
(* State.                                                                  *)
(***************************************************************************)
VARIABLES
  config,          \* platform.config: use_direct_webhook, smartapp_id
  installedAppId,  \* SmartAppHandler.installedAppId
  authToken,       \* SmartAppHandler.authToken
  refreshToken,    \* SmartAppHandler.refreshToken
  locationId,      \* SmartAppHandler.locationId
  deviceIds,       \* SmartAppHandler.deviceIds (an array: order and repeats kept)
  disk,            \* smartapp_credentials.json: Absent (no file) or its record
  remote,          \* SmartThings: installedAppId -> set of subscriptions
  tasks,           \* slot -> the request handler running in it (or Idle)
  nreq,            \* requests accepted so far
  nfault,          \* remote calls and credential writes that have failed so far
  lastInstall,     \* what the INSTALL answered last left behind (or Absent)
  devices,         \* SubscriptionHandler.devices: the accessories' ids, in order
  shutdown,        \* SubscriptionHandler.shutdown
  isRunning,       \* WebhookServer.isRunning: the server takes new connections
  authHandler,     \* WebhookServer.authHandler: Null or the OAuth collaborator
  poll,            \* the legacy polling loop (startService)
  crashLog,        \* crash_loop_log.json: whether it exists, and the array it holds
  now,             \* Date.now(), in milliseconds
  crash,           \* slot -> the crash-loop manager's call running in it
  recorded,        \* the entries pushed by recordPotentialCrash since the last reset
  ioFailed,        \* a read or write of the crash log has failed since the last reset
  ncrash           \* calls of the crash-loop manager so far

handlerVars == <<installedAppId, authToken, refreshToken, locationId, deviceIds,
                 disk, remote, tasks, nreq, nfault, lastInstall>>
dispatchVars == <<devices, shutdown, poll>>
serverVars == <<isRunning, authHandler>>
crashVars == <<crashLog, now, crash, recorded, ioFailed, ncrash>>
vars == <<config, handlerVars, dispatchVars, serverVars, crashVars>>

(***************************************************************************)
(* Request payloads.                                                       *)
(***************************************************************************)
\* installData / updateData as SmartThings sends them
Cred1 == [authToken |-> "t1", refreshToken |-> "r1",
          installedApp |-> [installedAppId |-> "a1", locationId |-> "l1"]]
Cred2 == [authToken |-> "t2", refreshToken |-> "r2",
          installedApp |-> [installedAppId |-> "a2", locationId |-> "l2"]]
\* a payload whose installedApp object is missing
CredNoApp == [authToken |-> "t1", refreshToken |-> "r1", installedApp |-> Absent]
InstallDatas == {Cred1, Cred2, CredNoApp, Absent}
\* payloads whose token is the empty string, or missing
CredEmptyToken == [authToken |-> "", refreshToken |-> "r1",
                   installedApp |-> Cred1.installedApp]
CredNoToken == [refreshToken |-> "r1", installedApp |-> Cred1.installedApp]

DevEv(d, v) ==
  [eventType |-> "DEVICE_EVENT",
   deviceEvent |-> [eventId |-> "e", deviceId |-> d, componentId |-> "main",
                    capability |-> "switch", attribute |-> "switch",
                    value |-> v, stateChange |-> TRUE],
   deviceLifecycleEvent |-> Absent]
LifeEv(k, d) ==
  [eventType |-> "DEVICE_LIFECYCLE_EVENT",
   deviceEvent |-> Absent,
   deviceLifecycleEvent |-> [lifecycle |-> k, eventId |-> "e", deviceId |-> d,
                             deviceName |-> "name"]]
OtherEv == [eventType |-> "MODE_EVENT", deviceEvent |-> Absent,
            deviceLifecycleEvent |-> Absent]
\* "d3" is a device no accessory and no registration knows
EventItems == {DevEv("d1", "on"), DevEv("d3", "on"), LifeEv("CREATE", "d3")}
\* items that lead to no dispatch and no subscription call
PassiveItems == {LifeEv("DELETE", "d1"), OtherEv}
\* the items of the messages handled while another handler is suspended
FewEventItems == {DevEv("d1", "on"), LifeEv("CREATE", "d3")}

RECURSIVE SeqsUpTo(_, _)
\* every sequence over S of length at most n
SeqsUpTo(S, n) ==
  IF n = 0 THEN {<<>>}
  ELSE LET shorter == SeqsUpTo(S, n - 1)
       IN shorter \cup {Append(s, x) : s \in {q \in shorter : Len(q) = n - 1}, x \in S}

\* the event lists of the messages: every list of the first kind of items,
\* and the passive items alone and before a device event
EventLists ==
  SeqsUpTo(EventItems, MaxEvents)
  \cup {<<x>> : x \in PassiveItems} \cup {<<x, DevEv("d1", "on")>> : x \in PassiveItems}
FewEventLists == SeqsUpTo(FewEventItems, 1)

EventData(c, es) ==
  [authToken |-> c.authToken, installedApp |-> c.installedApp, events |-> es]
\* eventData without a token
NoToken == [authToken |-> "", installedApp |-> Cred1.installedApp]

\* eventData: a token (or none), the installed app, the event list (or none)
EventDatas ==
  {EventData(Cred1, es) : es \in EventLists}
  \cup {EventData(c, es) : c \in {Cred2, NoToken}, es \in FewEventLists}
  \cup {[authToken |-> "t1", installedApp |-> Cred1.installedApp], Absent}

Challenges == {"c1", "c2"}
PingDatas == {[challenge |-> c] : c \in Challenges \cup {""}} \cup {Absent}
ConfirmationDatas == {[confirmationUrl |-> "u1"], [confirmationUrl |-> ""], Absent}
ConfigurationDatas == {[phase |-> "INITIALIZE"], [phase |-> "PAGE"],
                       [phase |-> "OTHER"], Absent}

\* a lifecycle message: the SmartAppRequest of smartAppHandler.ts
Msg(lc, appId, data) == [lifecycle |-> lc, appId |-> appId, data |-> data]
\* the messages of the configured SmartApp
LifecycleMsgs ==
  {Msg("PING", "app1", d) : d \in PingDatas}
  \cup {Msg("CONFIRMATION", "app1", d) : d \in ConfirmationDatas}
  \cup {Msg("CONFIGURATION", "app1", d) : d \in ConfigurationDatas}
  \cup {Msg("INSTALL", "app1", d) : d \in InstallDatas}
  \cup {Msg("UPDATE", "app1", d) : d \in InstallDatas}
  \cup {Msg("EVENT", "app1", d) : d \in EventDatas}
  \cup {Msg("UNINSTALL", "app1", Absent), Msg("OTHER", "app1", Absent)}
\* messages of another SmartApp, and one that names none
ForeignMsgs ==
  {Msg(lc.l, a, lc.d) :
     lc \in {[l |-> "PING", d |-> [challenge |-> "c1"]], [l |-> "INSTALL", d |-> Cred1],
             [l |-> "EVENT", d |-> EventData(Cred1, <<LifeEv("CREATE", "d3")>>)],
             [l |-> "UNINSTALL", d |-> Absent]},
     a \in {"app2", Undef}}
\* the messages handled while another handler is suspended
FewMsgs ==
  {Msg("PING", "app1", [challenge |-> "c1"]), Msg("PING", "app1", [challenge |-> "c2"]),
   Msg("INSTALL", "app1", Cred1), Msg("UPDATE", "app1", Cred1),
   Msg("EVENT", "app1", EventData(Cred1, <<LifeEv("CREATE", "d3")>>)),
   Msg("EVENT", "app1", EventData(Cred2, <<DevEv("d1", "on")>>)),
   Msg("UNINSTALL", "app1", Absent)}

\* the lifecycle kinds that are forwarded without a subscription call
ForwardedKinds == {"DELETE", "UPDATE", "MOVE_FROM", "MOVE_TO"}
\* items of a type the handler does not know, and typed items without payload
UntypedItems ==
  {OtherEv,
   [eventType |-> "DEVICE_EVENT", deviceEvent |-> Absent, deviceLifecycleEvent |-> Absent],
   [eventType |-> "DEVICE_LIFECYCLE_EVENT", deviceEvent |-> Absent,
    deviceLifecycleEvent |-> Absent]}
\* the items of the messages that exercise the event loop: every forwarded
\* kind for a registered device, a CREATE, a device event, the ignored items
MaxItems == 2
LoopItems ==
  {LifeEv(k, "d1") : k \in ForwardedKinds}
  \cup {LifeEv("CREATE", "d3"), DevEv("d1", "on")} \cup UntypedItems
LoopMsgs ==
  {Msg("EVENT", "app1", EventData(Cred1, es)) : es \in SeqsUpTo(LoopItems, MaxItems)}
  \cup {Msg("UPDATE", "app1", Cred1)}

(***************************************************************************)
(* The handler's state as one value, so that the synchronous stretches of  *)
(* a handler compose as functions.                                         *)
(***************************************************************************)
M == [installedAppId |-> installedAppId, authToken |-> authToken,
      refreshToken |-> refreshToken, locationId |-> locationId,
      deviceIds |-> deviceIds, disk |-> disk, remote |-> remote, tasks |-> tasks]

Becomes(m) ==
  /\ installedAppId' = m.installedAppId
  /\ authToken' = m.authToken
  /\ refreshToken' = m.refreshToken
  /\ locationId' = m.locationId
  /\ deviceIds' = m.deviceIds
  /\ disk' = m.disk
  /\ remote' = m.remote
  /\ tasks' = m.tasks

NoCall == [op |-> "none"]
Idle == [route |-> "none", lc |-> "NONE", pc |-> "idle", req |-> Absent,
         inst |-> FALSE, status |-> 0, resp |-> Absent,
         call |-> NoCall, todo |-> <<>>, live |-> FALSE, i |-> 0, log |-> <<>>]

Note(m, t, e) == [m EXCEPT !.tasks[t].log = Append(@, e)]

EmptyObject == [size |-> 0]

\* the request of task t is answered with this status and JSON body
Done(m, t, status, body) ==
  [m EXCEPT !.tasks[t].pc = "done", !.tasks[t].status = status,
            !.tasks[t].resp = body, !.tasks[t].call = NoCall]

\* handleRequest returned `response`: written with response.statusCode || 200
Respond(m, t, response) ==
  Done(m, t, IF "statusCode" \in DOMAIN response THEN response.statusCode ELSE 200,
       response)

\* an exception left handleRequest: the server's catch answers 400
Thrown(m, t) == Done(m, t, 400, [error |-> "Invalid request body"])

(***************************************************************************)
(* Credentials (smartAppHandler.ts 154-200, 853-855).                      *)
(***************************************************************************)
IsInstalled(m) == m.installedAppId # Null /\ m.authToken # Null

\* the guard `!this.installedAppId || !this.authToken` of the subscription calls
MissingCredentials(m) == ~Truthy(m.installedAppId) \/ ~Truthy(m.authToken)

\* JSON.stringify leaves out the properties that are undefined
Stringify(rec) == [f \in {g \in DOMAIN rec : rec[g] # Undef} |-> rec[f]]

\* new Date(ms).toISOString(): the text of an instant, not the number
ToISOString(ms) == "T" \o ToString(ms)

\* faulty variant: a write that fails takes the credentials out of memory too
SaveOrForget(m, ok) ==
  IF ok
  THEN [m EXCEPT !.disk = Stringify([installedAppId |-> m.installedAppId,
                                     authToken |-> m.authToken,
                                     refreshToken |-> m.refreshToken,
                                     locationId |-> m.locationId,
                                     savedAt |-> ToISOString(now)])]
  ELSE [m EXCEPT !.installedAppId = Null, !.authToken = Null,
                 !.refreshToken = Null, !.locationId = Null]

\* the four credentials and the time of the write go to the file; writeFileSync
\* may throw (ok = FALSE): the error is logged and the file is as before
SaveCredentials(m, ok) ==
  IF ok
  THEN [m EXCEPT !.disk = Stringify([installedAppId |-> m.installedAppId,
                                     authToken |-> m.authToken,
                                     refreshToken |-> m.refreshToken,
                                     locationId |-> m.locationId,
                                     savedAt |-> ToISOString(now)])]
  ELSE m

\* unlinkSync may throw (ok = FALSE): the error is logged and the file stays
ClearCredentials(m, ok) == IF ok THEN [m EXCEPT !.disk = Absent] ELSE m

\* the constructor's load: the four fields of the file, each `|| null`
LoadCredentials(file) ==
  IF file = Absent
  THEN [installedAppId |-> Null, authToken |-> Null, refreshToken |-> Null,
        locationId |-> Null]
  ELSE [installedAppId |-> OrNull(Get(file, "installedAppId")),
        authToken |-> OrNull(Get(file, "authToken")),
        refreshToken |-> OrNull(Get(file, "refreshToken")),
        locationId |-> OrNull(Get(file, "locationId"))]

(***************************************************************************)
(* The SmartThings subscription API, as the handler's calls assume it: a   *)
(* create answers 409 when the subscription exists, a delete removes every *)
(* subscription of the installed app, a list returns them; any call may    *)
(* fail, and a call without an installed app id and token always does.     *)
(***************************************************************************)
DeviceSub(d) == [sourceType |-> "DEVICE", deviceId |-> d]
LifecycleSub == [sourceType |-> "DEVICE_LIFECYCLE", deviceId |-> Null]
CapabilitySub == [sourceType |-> "CAPABILITY", deviceId |-> Null]
AllSubs == {DeviceSub(d) : d \in DeviceIdSet} \cup {LifecycleSub, CapabilitySub}

Authorized(call) == call.app \in AppIdSet /\ Truthy(call.tok)

\* the answer to a call: "ok", "conflict" (409) or "fail"
Answer(rem, call, net) ==
  IF net = "fail" \/ ~Authorized(call) THEN "fail"
  ELSE IF call.op = "create" /\ call.sub \in rem[call.app] THEN "conflict"
  ELSE "ok"

\* the subscriptions after the call
Served(rem, call, net) ==
  IF Answer(rem, call, net) # "ok" THEN rem
  ELSE IF call.op = "create" THEN [rem EXCEPT ![call.app] = @ \cup {call.sub}]
  ELSE IF call.op = "delete" THEN [rem EXCEPT ![call.app] = {}]
  ELSE rem

\* what a list call returns in response.data.items
Listed(rem, call, net) ==
  IF Answer(rem, call, net) = "ok" THEN rem[call.app] ELSE {}

\* issue a call: the url and headers are built from the credentials held now
Issue(m, t, pc, op, sub) ==
  LET call == [op |-> op, app |-> m.installedAppId, tok |-> m.authToken, sub |-> sub,
               pc |-> pc]
  IN Note([m EXCEPT !.tasks[t].pc = pc, !.tasks[t].call = call], t, call)

\* the subscriptions the called installation holds
Held(rem, call) == IF call.app \in AppIdSet THEN rem[call.app] ELSE {}

\* the call of task t is answered: the subscriptions change, and the log notes
\* the answer and what the installation held before it
Answered(m, t, net) ==
  LET call == m.tasks[t].call
  IN Note([m EXCEPT !.remote = Served(m.remote, call, net)], t,
          [op |-> "answer", is |-> Answer(m.remote, call, net),
           had |-> Held(m.remote, call)])

(***************************************************************************)
(* Event dispatch (subscriptionHandler.ts 86-91, smartAppHandler.ts        *)
(* 820-841).                                                               *)
(***************************************************************************)
\* faulty variant: the event is forwarded without its value
ShortEventWithoutValue(de) ==
  [deviceId |-> de.deviceId, componentId |-> de.componentId,
   capability |-> de.capability, attribute |-> de.attribute, value |-> Undef]

\* the five fields of a ShortEvent taken from a deviceEvent
ShortEvent(de) ==
  [deviceId |-> de.deviceId, componentId |-> de.componentId,
   capability |-> de.capability, attribute |-> de.attribute, value |-> de.value]

\* faulty variant: the first accessory takes every event
FindFirstDevice(ev) == IF devices = <<>> THEN 0 ELSE 1

\* devices.find(device => device.id === event.deviceId): the first match, or 0
FindDevice(ev) ==
  LET hits == {k \in DOMAIN devices : devices[k] = Get(ev, "deviceId")}
  IN IF hits = {} THEN 0 ELSE CHOOSE k \in hits : \A j \in hits : k <= j

\* the accessories whose processEvent raises an error (the consumers are
\* external: this one always fails, the others never do)
FaultyDevices == {"d2"}

\* SubscriptionHandler.handleDeviceEvent: the processEvent calls it makes, and
\* whether the error of one leaves it
HandleDeviceEvent(ev) ==
  LET k == FindDevice(ev)
  IN IF k = 0 THEN [calls |-> <<>>, threw |-> FALSE]
     ELSE [calls |-> <<[op |-> "processEvent", device |-> k, event |-> ev]>>,
           threw |-> devices[k] \in FaultyDevices]

\* the handlers registered with addEventHandler: the dispatcher's, once
EventHandlerCount == 1

RECURSIVE CallHandlers(_, _, _)
\* SmartAppHandler.notifyEventHandlers and WebhookServer.notifyEventHandlers:
\* each handler in turn, its error caught; the log of what ran
CallHandlers(n, ev, log) ==
  IF n = 0 THEN log
  ELSE LET r == HandleDeviceEvent(ev)
       IN CallHandlers(n - 1, ev,
            log \o r.calls \o (IF r.threw THEN <<[op |-> "caught"]>> ELSE <<>>))

NotifyEventHandlers(m, t, ev) ==
  [m EXCEPT !.tasks[t].log =
     CallHandlers(EventHandlerCount, ev, Append(@, [op |-> "notify", event |-> ev]))]

\* the handlers registered with addDeviceLifecycleHandler
LifecycleHandlers == <<"lifecycleHandler">>

\* faulty variant: the consumers are not told the device name
NotifyWithoutName(m, t, le) ==
  [m EXCEPT !.tasks[t].log =
     @ \o [k \in DOMAIN LifecycleHandlers |->
             [op |-> "lifecycle", handler |-> LifecycleHandlers[k],
              lifecycle |-> le.lifecycle, deviceId |-> le.deviceId,
              deviceName |-> Undef]]]

NotifyDeviceLifecycleHandlers(m, t, le) ==
  [m EXCEPT !.tasks[t].log =
     @ \o [k \in DOMAIN LifecycleHandlers |->
             [op |-> "lifecycle", handler |-> LifecycleHandlers[k],
              lifecycle |-> le.lifecycle, deviceId |-> le.deviceId,
              deviceName |-> Get(le, "deviceName")]]]

(***************************************************************************)
(* handleEvent's loop over eventData.events (smartAppHandler.ts 484-540).  *)
(***************************************************************************)
RECURSIVE RunEventsStoppingAtUnknown(_, _)
\* faulty variant: an item of no known type ends the handler as an error
RunEventsStoppingAtUnknown(m, t) ==
  LET data == m.tasks[t].req.data
      events == data.events
      k == m.tasks[t].i
  IN IF "events" \notin DOMAIN data THEN Thrown(m, t)
     ELSE IF k >= Len(events)
     THEN Respond(m, t, [statusCode |-> 200, eventData |-> EmptyObject])
     ELSE LET event == events[k + 1]
              next == [m EXCEPT !.tasks[t].i = k + 1]
          IN IF event.eventType = "DEVICE_EVENT" /\ event.deviceEvent # Absent
             THEN RunEventsStoppingAtUnknown(
                    NotifyEventHandlers(next, t, ShortEvent(event.deviceEvent)), t)
             ELSE IF event.eventType = "DEVICE_LIFECYCLE_EVENT"
                     /\ event.deviceLifecycleEvent # Absent
             THEN IF event.deviceLifecycleEvent.lifecycle = "CREATE"
                  THEN Issue(m, t, "newdevice", "create",
                             DeviceSub(event.deviceLifecycleEvent.deviceId))
                  ELSE RunEventsStoppingAtUnknown(
                         NotifyDeviceLifecycleHandlers(next, t, event.deviceLifecycleEvent), t)
             ELSE Thrown(next, t)

RECURSIVE RunEvents(_, _)
\* runs from item i+1 to the next await (a CREATE item's subscription call)
\* or to the end of the list
RunEvents(m, t) ==
  LET data == m.tasks[t].req.data
      events == data.events
      k == m.tasks[t].i
  IN IF "events" \notin DOMAIN data THEN Thrown(m, t)
     ELSE IF k >= Len(events)
     THEN Respond(m, t, [statusCode |-> 200, eventData |-> EmptyObject])
     ELSE LET event == events[k + 1]
              next == [m EXCEPT !.tasks[t].i = k + 1]
          IN IF event.eventType = "DEVICE_EVENT" /\ event.deviceEvent # Absent
             THEN RunEvents(NotifyEventHandlers(next, t, ShortEvent(event.deviceEvent)), t)
             ELSE IF event.eventType = "DEVICE_LIFECYCLE_EVENT"
                     /\ event.deviceLifecycleEvent # Absent
             THEN IF event.deviceLifecycleEvent.lifecycle = "CREATE"
                  THEN Issue(m, t, "newdevice", "create",
                             DeviceSub(event.deviceLifecycleEvent.deviceId))
                  ELSE RunEvents(
                         NotifyDeviceLifecycleHandlers(next, t, event.deviceLifecycleEvent), t)
             ELSE RunEvents(next, t)

\* faulty variant: the new device id is not registered
PushNothing(m, d) == m

\* this.deviceIds.push(d): seen by every loop still iterating that array
Push(m, d) ==
  [m EXCEPT !.deviceIds = Append(@, d),
            !.tasks = [s \in Slots |->
                         IF m.tasks[s].live THEN [m.tasks[s] EXCEPT !.todo = Append(@, d)]
                         ELSE m.tasks[s]]]

\* after `await this.createDeviceSubscription(deviceId)` of a CREATE item
AfterNewDevice(m, t, net) ==
  LET call == m.tasks[t].call
      ans == Answer(m.remote, call, net)
      le == m.tasks[t].req.data.events[m.tasks[t].i + 1].deviceLifecycleEvent
      m1 == Answered(m, t, net)
      m2 == IF ans = "fail" THEN m1 ELSE Push(m1, le.deviceId)
      m3 == NotifyDeviceLifecycleHandlers([m2 EXCEPT !.tasks[t].i = @ + 1], t, le)
  IN RunEvents(m3, t)

(***************************************************************************)
(* Subscription creation and reconciliation (smartAppHandler.ts 566-750,   *)
(* 797-815).  Each operator runs the code up to its next await.            *)
(***************************************************************************)
\* what follows createDeviceLifecycleSubscription in the handler of task t
AfterLifecycle(m, t) ==
  LET lc == m.tasks[t].lc
  IN IF lc = "INSTALL" THEN Respond(m, t, [statusCode |-> 200, installData |-> EmptyObject])
     ELSE IF lc = "UPDATE"
     THEN Respond(m, t, [statusCode |-> 200, updateData |-> EmptyObject])
     ELSE IF lc = "EVENT" THEN RunEvents(m, t)
     ELSE Done(m, t, 0, Absent)

CreateDeviceLifecycleSubscription(m, t) ==
  IF MissingCredentials(m) \/ ~Truthy(m.locationId) THEN AfterLifecycle(m, t)
  ELSE Issue(m, t, "lifecycle", "create", LifecycleSub)

\* its await answered: 409 and every other error are logged, none is rethrown
AfterLifecycleCall(m, t, net) == AfterLifecycle(Answered(m, t, net), t)

\* createDeviceSubscription for the next id of the array being iterated
NextCreate(m, t, arr, live) ==
  Issue([m EXCEPT !.tasks[t].todo = Tail(arr), !.tasks[t].live = live], t,
        "create", "create", DeviceSub(Head(arr)))

\* faulty variant: the first failed create ends the loop
AfterCreateAbort(m, t, net) ==
  LET m1 == Answered(m, t, net)
  IN IF m1.tasks[t].todo # <<>> /\ Answer(m.remote, m.tasks[t].call, net) # "fail"
     THEN NextCreate(m1, t, m1.tasks[t].todo, m1.tasks[t].live)
     ELSE CreateDeviceLifecycleSubscription([m1 EXCEPT !.tasks[t].live = FALSE], t)

\* faulty variant: a 409 leaves the handler as an error
AfterCreateSurfacing(m, t, net) ==
  LET m1 == Answered(m, t, net)
  IN IF Answer(m.remote, m.tasks[t].call, net) = "conflict" THEN Thrown(m1, t)
     ELSE IF m1.tasks[t].todo # <<>>
     THEN NextCreate(m1, t, m1.tasks[t].todo, m1.tasks[t].live)
     ELSE CreateDeviceLifecycleSubscription([m1 EXCEPT !.tasks[t].live = FALSE], t)

\* faulty variant: a failed create leaves the handler as an error
AfterCreateRethrowing(m, t, net) ==
  LET m1 == Answered(m, t, net)
  IN IF Answer(m.remote, m.tasks[t].call, net) = "fail" THEN Thrown(m1, t)
     ELSE IF m1.tasks[t].todo # <<>>
     THEN NextCreate(m1, t, m1.tasks[t].todo, m1.tasks[t].live)
     ELSE CreateDeviceLifecycleSubscription([m1 EXCEPT !.tasks[t].live = FALSE], t)

\* a create of the loop answered: 409 is absorbed, another error is caught
\* by the loop; either way the loop goes on
AfterCreate(m, t, net) ==
  LET m1 == Answered(m, t, net)
  IN IF m1.tasks[t].todo # <<>>
     THEN NextCreate(m1, t, m1.tasks[t].todo, m1.tasks[t].live)
     ELSE CreateDeviceLifecycleSubscription([m1 EXCEPT !.tasks[t].live = FALSE], t)

\* INSTALL and UPDATE: one create per entry of this.deviceIds
CreateDeviceSubscriptions(m, t) ==
  IF MissingCredentials(m) \/ Len(m.deviceIds) = 0
  THEN CreateDeviceLifecycleSubscription(m, t)
  ELSE NextCreate(m, t, m.deviceIds, TRUE)

\* the device ids of the listed subscriptions with sourceType DEVICE
ExistingDeviceIds(items) ==
  {sub.deviceId : sub \in {x \in items : x.sourceType = "DEVICE" /\ Truthy(x.deviceId)}}

\* the list call answered (a failed call yields the empty set): create the
\* subscriptions of the ids that are not listed
AfterList(m, t, net) ==
  LET call == m.tasks[t].call
      existing == ExistingDeviceIds(Listed(m.remote, call, net))
      missing == SeqFilter(m.deviceIds, existing)
      m1 == Note(Answered(m, t, net), t, [op |-> "filter", ids |-> m.deviceIds])
  IN IF Len(missing) = 0 THEN CreateDeviceLifecycleSubscription(m1, t)
     ELSE NextCreate(m1, t, missing, FALSE)

\* faulty variant: reconciliation clears the remote set before it creates
SyncAfterDelete(m, t) ==
  IF MissingCredentials(m) \/ Len(m.deviceIds) = 0
  THEN CreateDeviceLifecycleSubscription(m, t)
  ELSE Issue(m, t, "delete", "delete", Absent)

\* syncDeviceSubscriptions, then the createDeviceLifecycleSubscription that
\* both of its callers run after it
SyncDeviceSubscriptions(m, t) ==
  IF MissingCredentials(m) \/ Len(m.deviceIds) = 0
  THEN CreateDeviceLifecycleSubscription(m, t)
  ELSE Issue(m, t, "list", "list", Absent)

\* faulty variant: the first EVENT with credentials goes straight to its events
SkipPendingSubscriptions(m, t) == RunEvents(m, t)

SyncPendingSubscriptions(m, t) ==
  IF ~IsInstalled(m) \/ Len(m.deviceIds) = 0 THEN RunEvents(m, t)
  ELSE SyncDeviceSubscriptions(m, t)

\* faulty variant: UPDATE without the delete call
KeepAllSubscriptions(m, t) == CreateDeviceSubscriptions(m, t)

DeleteAllSubscriptions(m, t) ==
  IF MissingCredentials(m) THEN CreateDeviceSubscriptions(m, t)
  ELSE Issue(m, t, "delete", "delete", Absent)

AfterDelete(m, t, net) == CreateDeviceSubscriptions(Answered(m, t, net), t)

(***************************************************************************)
(* The lifecycle handlers (smartAppHandler.ts 255-561).                    *)
(***************************************************************************)
\* faulty variant: a PING that is answered only once the app is installed
HandlePingWhenInstalled(m, t, request) ==
  IF request.data = Absent \/ ~Truthy(Get(request.data, "challenge")) \/ ~IsInstalled(m)
  THEN Respond(m, t, [statusCode |-> 400])
  ELSE Respond(m, t, [statusCode |-> 200,
                      pingData |-> [challenge |-> request.data.challenge]])

HandlePing(m, t, request) ==
  IF request.data = Absent \/ ~Truthy(Get(request.data, "challenge"))
  THEN Respond(m, t, [statusCode |-> 400])
  ELSE Respond(m, t, [statusCode |-> 200,
                      pingData |-> [challenge |-> request.data.challenge]])

HandleConfirmation(m, t, request) ==
  IF request.data = Absent \/ ~Truthy(Get(request.data, "confirmationUrl"))
  THEN Respond(m, t, [statusCode |-> 400])
  ELSE LET call == [op |-> "fetch", url |-> request.data.confirmationUrl]
       IN Note([m EXCEPT !.tasks[t].pc = "fetch", !.tasks[t].call = call], t, call)

\* faulty variant: any response to the fetch counts as a confirmation
AfterFetchAnyResponse(m, t, net) ==
  LET m1 == Note(m, t, [op |-> "fetched", is |-> net])
  IN IF net \in {"ok", "status"} THEN Respond(m1, t, [statusCode |-> 200])
     ELSE Respond(m1, t, [statusCode |-> 500])

\* `await axios.get(confirmationUrl)` is over: it resolved (a 2xx response,
\* net = "ok"), or it rejected, on a response of another status (net = "status")
\* or without a response (net = "fail")
AfterFetch(m, t, net) ==
  LET m1 == Note(m, t, [op |-> "fetched", is |-> net])
  IN IF net = "ok" THEN Respond(m1, t, [statusCode |-> 200])
     ELSE Respond(m1, t, [statusCode |-> 500])

\* the one setting of the configuration page
InfoSetting ==
  [id |-> "info", name |-> "Homebridge SmartThings",
   description |-> "This app enables real-time device updates for your Homebridge SmartThings plugin. All devices will be automatically monitored for changes.",
   type |-> "PARAGRAPH"]

HandleConfiguration(m, t, request) ==
  IF request.data = Absent THEN Respond(m, t, [statusCode |-> 400])
  ELSE IF Get(request.data, "phase") = "INITIALIZE"
  THEN Respond(m, t, [statusCode |-> 200,
                      configurationData |-> [initialize |->
                         [name |-> "Homebridge SmartThings",
                          description |-> "Homebridge integration for SmartThings devices",
                          id |-> "homebridge-smartthings",
                          permissions |-> <<"r:devices:*", "x:devices:*", "r:locations:*">>,
                          firstPageId |-> "1"]]])
  ELSE IF Get(request.data, "phase") = "PAGE"
  THEN Respond(m, t, [statusCode |-> 200,
                      configurationData |-> [page |->
                         [pageId |-> "1",
                          name |-> "Homebridge SmartThings Configuration",
                          nextPageId |-> Null, previousPageId |-> Null,
                          complete |-> TRUE,
                          sections |-> <<[name |-> "About", settings |-> <<InfoSetting>>]>>]]])
  ELSE Respond(m, t, [statusCode |-> 200])

\* the four assignments of INSTALL and UPDATE
StoreCredentials(m, data) ==
  [m EXCEPT !.installedAppId = Get(data.installedApp, "installedAppId"),
            !.authToken = Get(data, "authToken"),
            !.refreshToken = Get(data, "refreshToken"),
            !.locationId = Get(data.installedApp, "locationId")]

\* faulty variant: the INSTALL response carries the token it stored
HandleInstallEchoing(m, t, request, diskOk) ==
  IF request.data = Absent THEN Respond(m, t, [statusCode |-> 400])
  ELSE IF request.data.installedApp = Absent THEN Thrown(m, t)
  ELSE LET m1 == CreateDeviceSubscriptions(
                   SaveCredentials(StoreCredentials(m, request.data), diskOk), t)
       IN IF m1.tasks[t].pc = "done"
          THEN Respond(m1, t, [statusCode |-> 200,
                               installData |-> [authToken |-> m1.authToken]])
          ELSE m1

HandleInstall(m, t, request, diskOk) ==
  IF request.data = Absent THEN Respond(m, t, [statusCode |-> 400])
  ELSE IF request.data.installedApp = Absent THEN Thrown(m, t)
  ELSE CreateDeviceSubscriptions(
         SaveCredentials(StoreCredentials(m, request.data), diskOk), t)

HandleUpdate(m, t, request, diskOk) ==
  IF request.data = Absent THEN Respond(m, t, [statusCode |-> 400])
  ELSE IF request.data.installedApp = Absent THEN Thrown(m, t)
  ELSE DeleteAllSubscriptions(
         SaveCredentials(StoreCredentials(m, request.data), diskOk), t)

\* faulty variant: every EVENT with credentials reconciles, whatever was held
HandleEventAlwaysSyncing(m, t, request) ==
  IF request.data = Absent THEN Respond(m, t, [statusCode |-> 400])
  ELSE LET eventData == request.data
       IN IF Truthy(Get(eventData, "authToken")) /\ eventData.installedApp # Absent
          THEN LET m1 == [m EXCEPT
                            !.authToken = eventData.authToken,
                            !.installedAppId = Get(eventData.installedApp, "installedAppId"),
                            !.locationId = Get(eventData.installedApp, "locationId")]
               IN IF Len(m1.deviceIds) > 0
                  THEN SyncPendingSubscriptions(m1, t)
                  ELSE RunEvents(m1, t)
          ELSE RunEvents(m, t)

\* faulty variant: the location of the message is not stored with its token
HandleEventTearing(m, t, request) ==
  IF request.data = Absent THEN Respond(m, t, [statusCode |-> 400])
  ELSE LET eventData == request.data
           hadCredentialsBefore == IsInstalled(m)
       IN IF Truthy(Get(eventData, "authToken")) /\ eventData.installedApp # Absent
          THEN LET m1 == [m EXCEPT
                            !.authToken = eventData.authToken,
                            !.installedAppId = Get(eventData.installedApp, "installedAppId")]
               IN IF ~hadCredentialsBefore /\ Len(m1.deviceIds) > 0
                  THEN SyncPendingSubscriptions(m1, t)
                  ELSE RunEvents(m1, t)
          ELSE RunEvents(m, t)

HandleEvent(m, t, request) ==
  IF request.data = Absent THEN Respond(m, t, [statusCode |-> 400])
  ELSE LET eventData == request.data
           hadCredentialsBefore == IsInstalled(m)
       IN IF Truthy(Get(eventData, "authToken")) /\ eventData.installedApp # Absent
          THEN LET m1 == [m EXCEPT
                            !.authToken = eventData.authToken,
                            !.installedAppId = Get(eventData.installedApp, "installedAppId"),
                            !.locationId = Get(eventData.installedApp, "locationId")]
               IN IF ~hadCredentialsBefore /\ Len(m1.deviceIds) > 0
                  THEN SyncPendingSubscriptions(m1, t)
                  ELSE RunEvents(m1, t)
          ELSE RunEvents(m, t)

\* faulty variant: UNINSTALL keeps the refresh token
HandleUninstallKeepingToken(m, t, diskOk) ==
  Respond(ClearCredentials([m EXCEPT !.installedAppId = Null, !.authToken = Null,
                                     !.locationId = Null],
                           diskOk),
          t, [statusCode |-> 200, uninstallData |-> EmptyObject])

HandleUninstall(m, t, diskOk) ==
  Respond(ClearCredentials([m EXCEPT !.installedAppId = Null, !.authToken = Null,
                                     !.refreshToken = Null, !.locationId = Null],
                           diskOk),
          t, [statusCode |-> 200, uninstallData |-> EmptyObject])

HandleRequest(m, t, request, diskOk) ==
  LET lc == Get(request, "lifecycle")
  IN IF lc = "PING" THEN HandlePing(m, t, request)
     ELSE IF lc = "CONFIRMATION" THEN HandleConfirmation(m, t, request)
     ELSE IF lc = "CONFIGURATION" THEN HandleConfiguration(m, t, request)
     ELSE IF lc = "INSTALL" THEN HandleInstall(m, t, request, diskOk)
     ELSE IF lc = "UPDATE" THEN HandleUpdate(m, t, request, diskOk)
     ELSE IF lc = "EVENT" THEN HandleEvent(m, t, request)
     ELSE IF lc = "UNINSTALL" THEN HandleUninstall(m, t, diskOk)
     ELSE Respond(m, t, [statusCode |-> 200])

(***************************************************************************)
(* The webhook server (webhookServer.ts 41-66, 93-193).                    *)
(***************************************************************************)
\* a request body: text that JSON.parse accepts, giving `value`, or not
Json(v) == [json |-> TRUE, value |-> v]
Malformed == [json |-> FALSE]

\* the branch of the createServer callback a request takes
Route(pathname, method) ==
  IF pathname = "/oauth/callback" THEN "oauth"
  ELSE IF pathname = "/smartapp"
          \/ (pathname = "/" /\ config.use_direct_webhook /\ method = "POST")
  THEN "smartapp"
  ELSE IF pathname = "/" /\ method = "POST" THEN "legacy"
  ELSE IF pathname = "/health" \/ (pathname = "/" /\ method = "GET") THEN "health"
  ELSE "notfound"

Endpoints == [pathname : {"/smartapp", "/", "/health", "/oauth/callback", "/other"},
              method : {"GET", "POST"}]

\* a task for a request taking branch `route`, with what it carries
Start(m, t, route, lc, req) ==
  [m EXCEPT !.tasks[t] = [Idle EXCEPT !.route = route, !.lc = lc, !.pc = "run",
                                      !.req = req, !.inst = IsInstalled(m)]]

\* faulty variant: the body that does not parse is answered by the outer catch
InternalError(m, t, body) ==
  Done(Start(m, t, "smartapp", "NONE", body), t, 500, [error |-> "Internal server error"])

\* JSON.parse threw: the catch of the 'end' callback answers 400
InvalidBody(m, t, body) ==
  Done(Start(m, t, "smartapp", "NONE", body), t, 400, [error |-> "Invalid request body"])

\* faulty variant: the appId of the message is not compared with the configured one
HandleSmartAppRequestUnchecked(m, t, body, diskOk) ==
  IF ~config.use_direct_webhook
  THEN Done(Start(m, t, "smartapp", "NONE", body), t, 500,
            [error |-> "SmartApp handler not initialized"])
  ELSE IF ~body.json THEN InvalidBody(m, t, body)
  ELSE HandleRequest(Start(m, t, "smartapp", Get(body.value, "lifecycle"), body.value),
                     t, body.value, diskOk)

\* handleSmartAppRequest: 500 without a handler, 400 for a body that does not
\* parse, 403 for a foreign appId, else the handler's response
HandleSmartAppRequest(m, t, body, diskOk) ==
  IF ~config.use_direct_webhook
  THEN Done(Start(m, t, "smartapp", "NONE", body), t, 500,
            [error |-> "SmartApp handler not initialized"])
  ELSE IF ~body.json THEN InvalidBody(m, t, body)
  ELSE LET request == body.value
           configuredAppId == config.smartapp_id
       IN IF Truthy(configuredAppId) /\ Get(request, "appId") # configuredAppId
          THEN Done(Start(m, t, "smartapp", "NONE", request), t, 403,
                    [error |-> "Invalid"])
          ELSE HandleRequest(Start(m, t, "smartapp", Get(request, "lifecycle"), request),
                             t, request, diskOk)

\* faulty variant: the parsed body is acknowledged and not forwarded
HandleLegacyEventDropping(m, t, body) ==
  IF ~body.json
  THEN Done(Start(m, t, "legacy", "NONE", body), t, 400, Absent)
  ELSE Done(Start(m, t, "legacy", "NONE", body.value), t, 200, Absent)

\* the legacy endpoint: the parsed body goes to the registered event handlers
HandleLegacyEvent(m, t, body) ==
  IF ~body.json
  THEN Done(Start(m, t, "legacy", "NONE", body), t, 400, Absent)
  ELSE Done(NotifyEventHandlers(Start(m, t, "legacy", "NONE", body.value), t, body.value),
            t, 200, Absent)

\* faulty variant: the probe reports an installation that is missing
HandleHealthWhenInstalled(m, t) ==
  IF IsInstalled(m)
  THEN Done(Start(m, t, "health", "NONE", Absent), t, 200,
            [status |-> "ok", directWebhook |-> config.use_direct_webhook])
  ELSE Done(Start(m, t, "health", "NONE", Absent), t, 503, [status |-> "not installed"])

HandleHealth(m, t) ==
  Done(Start(m, t, "health", "NONE", Absent), t, 200,
       [status |-> "ok", directWebhook |-> config.use_direct_webhook])

\* a body sent with Content-Type text/html
Html(text) == [html |-> text]

\* the page the OAuth collaborator answers its callback with
CollaboratorPage == Html("collaborator")

\* how the collaborator's handleOAuthCallback begins: it throws, or it returns
\* a promise that is awaited
OAuthCalls == {"threw", "pending"}

\* how the awaited promise settles: fulfilled after the collaborator has
\* answered the request, fulfilled without an answer, or rejected
OAuthOutcomes == {"answered", "silent", "rejected"}

\* the router's else-branch for /oauth/callback: no collaborator is registered
OAuthNotInitialized(m, t) ==
  Done(Start(m, t, "oauth", "NONE", Absent), t, 500,
       Html("<h1>Error: OAuth handler not initialized</h1>"))

\* the catch of handleOAuthCallback
AuthenticationFailed(m, t) ==
  Done(m, t, 500, Html("<h1>Authentication failed</h1><p>Please try again.</p>"))

\* handleOAuthCallback up to its await: the collaborator is called with the
\* response object; the router does not wait for it
HandleOAuthCallback(m, t, called) ==
  LET m0 == Start(m, t, "oauth", "NONE", Absent)
  IN IF authHandler = Null \/ called = "threw" THEN AuthenticationFailed(m0, t)
     ELSE [m0 EXCEPT !.tasks[t].pc = "oauth"]

\* handleOAuthCallback after its await: nothing is written when the promise
\* is fulfilled, so a request the collaborator did not answer stays open
AfterOAuth(m, t, outcome) ==
  CASE outcome = "answered" -> Done(m, t, 200, CollaboratorPage)
    [] outcome = "silent" -> [m EXCEPT !.tasks[t].pc = "open"]
    [] outcome = "rejected" -> AuthenticationFailed(m, t)

HandleNotFound(m, t, ep) == Done(Start(m, t, "notfound", "NONE", ep), t, 404, Absent)

\* the createServer callback: the branch taken and what it does
OnRequest(m, t, ep, body, diskOk, called) ==
  LET route == Route(ep.pathname, ep.method)
  IN CASE route = "oauth" -> IF authHandler # Null THEN HandleOAuthCallback(m, t, called)
                             ELSE OAuthNotInitialized(m, t)
       [] route = "smartapp" -> HandleSmartAppRequest(m, t, body, diskOk)
       [] route = "legacy" -> HandleLegacyEvent(m, t, body)
       [] route = "health" -> HandleHealth(m, t)
       [] route = "notfound" -> HandleNotFound(m, t, ep)

(***************************************************************************)
(* Actions.                                                                *)
(***************************************************************************)
\* a handler that returned is answered before anything else runs: nothing
\* suspends between handleRequest's return and res.end
NoneDone == \A s \in Slots : tasks[s].pc # "done"

\* faulty variant: a request is taken up only when no handler is suspended
FreeSlotWhenQuiet(t) ==
  /\ NoneDone
  /\ \A s \in Slots : tasks[s].pc = "idle"
  /\ t = "s1"

\* the slot a new task takes: the first free one
FreeSlot(t) ==
  /\ NoneDone
  /\ tasks[t].pc = "idle"
  /\ t = "s2" => tasks["s1"].pc # "idle"

\* the server reads a request in slot t: from a connection it takes now, or
\* from one it took earlier (Connect)
CanAccept(t) ==
  /\ nreq < MaxReqs
  /\ \/ FreeSlot(t) /\ isRunning
     \/ NoneDone /\ tasks[t].pc = "receiving"

Env == UNCHANGED <<config, dispatchVars, serverVars, crashVars>>

\* the outcomes the environment may still give a call or a write
Outcomes == IF nfault < MaxFaults THEN {TRUE, FALSE} ELSE {TRUE}
Faulted(ok) == nfault' = IF ok THEN nfault ELSE nfault + 1

\* the server takes a connection; its request is read in a later step
Connect(t) ==
  /\ FreeSlot(t)
  /\ isRunning
  /\ nreq < MaxReqs
  /\ tasks' = [tasks EXCEPT ![t] = [Idle EXCEPT !.pc = "receiving"]]
  /\ UNCHANGED <<installedAppId, authToken, refreshToken, locationId, deviceIds,
                 disk, remote, nreq, nfault, lastInstall>>
  /\ Env

\* setAuthHandler(auth): the OAuth collaborator is registered
SetAuthHandler ==
  /\ authHandler = Null
  /\ authHandler' = "auth"
  /\ UNCHANGED <<config, handlerVars, dispatchVars, isRunning, crashVars>>

\* UiServer.clearAllTokens, in the process of the settings page: the
\* credentials file is unlinked; the handler that runs is not told
ClearAllTokens ==
  /\ NoneDone
  /\ disk # Absent
  /\ disk' = Absent
  /\ lastInstall' = Absent
  /\ UNCHANGED <<installedAppId, authToken, refreshToken, locationId, deviceIds,
                 remote, tasks, nreq, nfault>>
  /\ Env

\* a lifecycle message arrives at an endpoint that routes to the SmartApp handler
LifecycleRequest(t, msgs, writes) ==
  /\ CanAccept(t)
  /\ \E ep \in Endpoints, request \in msgs, diskOk \in writes \cap Outcomes :
       /\ Route(ep.pathname, ep.method) = "smartapp"
       /\ request.lifecycle \notin {"INSTALL", "UPDATE", "UNINSTALL"} => diskOk
       /\ Becomes(HandleSmartAppRequest(M, t, Json(request), diskOk))
       /\ Faulted(diskOk)
       /\ lastInstall' = IF request.lifecycle = "INSTALL" THEN lastInstall ELSE Absent
  /\ nreq' = nreq + 1
  /\ Env

\* a body that is not JSON arrives there
MalformedRequest(t) ==
  /\ CanAccept(t)
  /\ \E ep \in Endpoints :
       /\ Route(ep.pathname, ep.method) = "smartapp"
       /\ Becomes(HandleSmartAppRequest(M, t, Malformed, TRUE))
  /\ nreq' = nreq + 1
  /\ lastInstall' = Absent
  /\ UNCHANGED nfault
  /\ Env

ShortEvents == {ShortEvent(DevEv(d, "on").deviceEvent) : d \in {"d1", "d2", "d3"}}

\* a request arrives at the legacy event endpoint
LegacyRequest(t) ==
  /\ CanAccept(t)
  /\ \E ep \in Endpoints, body \in {Json(e) : e \in ShortEvents} \cup {Malformed} :
       /\ Route(ep.pathname, ep.method) = "legacy"
       /\ Becomes(HandleLegacyEvent(M, t, body))
  /\ nreq' = nreq + 1
  /\ lastInstall' = Absent
  /\ UNCHANGED nfault
  /\ Env

\* a health probe arrives
HealthRequest(t) ==
  /\ CanAccept(t)
  /\ \E ep \in Endpoints :
       /\ Route(ep.pathname, ep.method) = "health"
       /\ Becomes(HandleHealth(M, t))
  /\ nreq' = nreq + 1
  /\ lastInstall' = Absent
  /\ UNCHANGED nfault
  /\ Env

\* a request arrives at the OAuth callback or at no branch of the router
OtherRequest(t) ==
  /\ CanAccept(t)
  /\ \E ep \in Endpoints :
       \/ /\ Route(ep.pathname, ep.method) = "oauth"
          /\ \E called \in OAuthCalls :
               Becomes(OnRequest(M, t, ep, Malformed, TRUE, called))
       \/ /\ Route(ep.pathname, ep.method) = "notfound"
          /\ Becomes(HandleNotFound(M, t, ep))
  /\ nreq' = nreq + 1
  /\ lastInstall' = Absent
  /\ UNCHANGED nfault
  /\ Env

\* SmartAppHandler.setDeviceIds up to its first await (or its end)
SetDeviceIdsCall(m, t, ids) ==
  LET m0 == Start(m, t, "setDeviceIds", "NONE", ids)
      m1 == [m0 EXCEPT !.deviceIds = ids,
                       !.tasks = [s \in Slots |-> [m0.tasks[s] EXCEPT !.live = FALSE]]]
  IN IF IsInstalled(m1) /\ Len(ids) > 0
     THEN SyncDeviceSubscriptions(m1, t)
     ELSE Done(m1, t, 0, Absent)

DeviceLists == {s \in SeqsUpTo({"d1", "d2"}, 2) : Cardinality(Range(s)) = Len(s)}

\* setDeviceIds(ids): the array is replaced; with credentials and a non-empty
\* list the subscriptions are synced
SetDeviceIds(t, lists) ==
  /\ FreeSlot(t) /\ nreq < MaxReqs
  /\ config.use_direct_webhook
  /\ \E ids \in lists : Becomes(SetDeviceIdsCall(M, t, ids))
  /\ nreq' = nreq + 1
  /\ lastInstall' = Absent
  /\ UNCHANGED nfault
  /\ Env

\* how an awaited call can end: resolved, or rejected (axios rejects on a
\* response whose status is not 2xx as it does without a response; the
\* subscription calls tell 409 apart, the confirmation fetch does not)
Nets(pc, ok) ==
  IF ok THEN {"ok"} ELSE IF pc = "fetch" THEN {"fail", "status"} ELSE {"fail"}

\* the outbound call a task awaits is answered and the task runs on
Resume(t) ==
  /\ NoneDone
  /\ tasks[t].pc \in {"list", "create", "lifecycle", "delete", "newdevice", "fetch"}
  /\ \E ok \in Outcomes : \E net \in Nets(tasks[t].pc, ok) :
          /\ Faulted(ok)
          /\ Becomes(CASE tasks[t].pc = "list" -> AfterList(M, t, net)
                 [] tasks[t].pc = "create" -> AfterCreate(M, t, net)
                 [] tasks[t].pc = "lifecycle" -> AfterLifecycleCall(M, t, net)
                 [] tasks[t].pc = "delete" -> AfterDelete(M, t, net)
                 [] tasks[t].pc = "newdevice" -> AfterNewDevice(M, t, net)
                 [] tasks[t].pc = "fetch" -> AfterFetch(M, t, net))
  /\ UNCHANGED <<nreq, lastInstall>>
  /\ Env

\* the promise of the OAuth collaborator settles and handleOAuthCallback runs on
OAuthSettles(t) ==
  /\ NoneDone
  /\ tasks[t].pc = "oauth"
  /\ \E outcome \in OAuthOutcomes : Becomes(AfterOAuth(M, t, outcome))
  /\ UNCHANGED <<nreq, nfault, lastInstall>>
  /\ Env

\* the response is written (or setDeviceIds' promise settles) and the task ends
Finish(t) ==
  /\ tasks[t].pc = "done"
  /\ tasks' = [tasks EXCEPT ![t] = Idle]
  /\ lastInstall' = IF tasks[t].lc = "INSTALL" /\ tasks[t].status = 200
                    THEN [req |-> tasks[t].req,
                          credentials |-> <<installedAppId, authToken, refreshToken,
                                            locationId>>,
                          disk |-> disk, remote |-> remote, log |-> tasks[t].log]
                    ELSE Absent
  /\ UNCHANGED <<installedAppId, authToken, refreshToken, locationId, deviceIds,
                 disk, remote, nreq, nfault>>
  /\ UNCHANGED <<config, dispatchVars, serverVars, crashVars>>

(***************************************************************************)
(* The legacy polling loop (subscriptionHandler.ts 93-132).                *)
(***************************************************************************)
\* long-poll calls issued in one behaviour
MaxPolls == 2
\* events of one long-poll response
MaxBatch == 2

Batches == SeqsUpTo(ShortEvents, MaxBatch)

RECURSIVE ForEachEvent(_, _)
\* responseBody.events.forEach(event => this.handleDeviceEvent(event)): the
\* calls made, and whether an error ended the forEach
ForEachEvent(events, log) ==
  IF events = <<>> THEN [log |-> log, threw |-> FALSE]
  ELSE LET r == HandleDeviceEvent(Head(events))
       IN IF r.threw THEN [log |-> log \o r.calls, threw |-> TRUE]
          ELSE ForEachEvent(Tail(events), log \o r.calls)

\* the head of `while (!this.shutdown)`: leave the loop or post the next poll
LoopHead(p) ==
  IF shutdown THEN [p EXCEPT !.pc = "returned"]
  ELSE [p EXCEPT !.pc = "polling", !.n = @ + 1]

StartService ==
  /\ poll.pc = "off"
  /\ poll' = IF config.use_direct_webhook THEN [poll EXCEPT !.pc = "returned"]
             ELSE LoopHead(poll)
  /\ UNCHANGED <<config, handlerVars, devices, shutdown, serverVars, crashVars>>

\* the long poll is answered with a batch, or fails
PollAnswer ==
  /\ poll.pc = "polling"
  /\ poll.n <= MaxPolls
  /\ \E answer \in {[ok |-> TRUE, events |-> b] : b \in Batches} \cup {[ok |-> FALSE]} :
       poll' = IF ~answer.ok
               THEN [poll EXCEPT !.pc = "waiting", !.batch = <<>>, !.log = <<>>]
               ELSE LET r == ForEachEvent(answer.events, <<>>)
                        p == [poll EXCEPT !.batch = answer.events, !.log = r.log]
                    IN IF r.threw THEN [p EXCEPT !.pc = "waiting"] ELSE LoopHead(p)
  /\ UNCHANGED <<config, handlerVars, devices, shutdown, serverVars, crashVars>>

\* wait(WH_CONNECT_RETRY_MINUTES * 60) is over
RetryWaitOver ==
  /\ poll.pc = "waiting"
  /\ poll' = LoopHead(poll)
  /\ UNCHANGED <<config, handlerVars, devices, shutdown, serverVars, crashVars>>

\* WebhookServer.stop: server.close() ends the taking of new connections; the
\* requests of the connections that are open are still served
Stop ==
  /\ isRunning
  /\ isRunning' = FALSE
  /\ UNCHANGED <<config, handlerVars, dispatchVars, authHandler, crashVars>>

\* stopService: the loop's flag is set and the server is stopped
StopService ==
  /\ ~shutdown
  /\ shutdown' = TRUE
  /\ isRunning' = FALSE
  /\ UNCHANGED <<config, handlerVars, devices, poll, authHandler, crashVars>>

(***************************************************************************)
(* The crash-loop manager (CrashLoopManager, part_001).                    *)
(***************************************************************************)
MAX_LOG_ENTRIES == 20
MsPerMinute == 60 * 1000

\* calls of the manager in one behaviour
MaxCrashCalls == 3
\* minutes the clock runs
MaxMinutes == 2

CrashSlots == {"k1", "k2"}
NoCrashCall == [op |-> "none"]

ErrorTypes == {"API_INIT_FAILURE", "OTHER"}

defaultCrashLoopConfig ==
  [maxCrashes |-> 5, timeWindowMinutes |-> 15,
   relevantErrorTypes |-> <<"API_INIT_FAILURE", "DEVICE_HEALTH_FAILURE",
                            "TOKEN_REFRESH_FAILURE">>]

CrashLoopConfigs ==
  [maxCrashes : {0, 1, 2}, timeWindowMinutes : {0, 1},
   relevantErrorTypes : {<<>>, <<"API_INIT_FAILURE">>}]
  \cup {defaultCrashLoopConfig}

\* crash_loop_log.json
NoFile == [exists |-> FALSE, data |-> <<>>]
File(array) == [exists |-> TRUE, data |-> array]

\* readCrashLog: the array of the file; no file or an error gives []
ReadCrashLog(file, ok) == IF ok /\ file.exists THEN file.data ELSE <<>>

\* faulty variant: the pruning keeps the oldest entries
PrunedFromEnd(logData) ==
  IF Len(logData) > MAX_LOG_ENTRIES THEN SubSeq(logData, 1, MAX_LOG_ENTRIES)
  ELSE logData

\* the pruning of writeCrashLog: logData.slice(logData.length - MAX_LOG_ENTRIES)
Pruned(logData) ==
  IF Len(logData) > MAX_LOG_ENTRIES
  THEN SubSeq(logData, Len(logData) - MAX_LOG_ENTRIES + 1, Len(logData))
  ELSE logData

\* writeCrashLog: the file afterwards; an error is logged and the file stays
WriteCrashLog(file, logData, ok) == IF ok THEN File(Pruned(logData)) ELSE file

\* relevantErrorTypes.includes(errorType)
Includes(array, x) == \E i \in DOMAIN array : array[i] = x

RECURSIVE RecentRelevantCrashes(_, _, _)
\* crashes.filter(...) of isCrashLoopDetected
RecentRelevantCrashes(crashes, cfg, nowMs) ==
  IF crashes = <<>> THEN <<>>
  ELSE LET crash1 == Head(crashes)
           timeWindowMs == cfg.timeWindowMinutes * MsPerMinute
           keep == /\ (nowMs - crash1.timestamp) <= timeWindowMs
                   /\ (Len(cfg.relevantErrorTypes) = 0
                       \/ Includes(cfg.relevantErrorTypes, crash1.errorType))
           rest == RecentRelevantCrashes(Tail(crashes), cfg, nowMs)
       IN IF keep THEN <<crash1>> \o rest ELSE rest

\* isCrashLoopDetected on the array it has read
IsCrashLoopDetected(crashes, cfg, nowMs) ==
  IF Len(crashes) = 0 THEN FALSE
  ELSE Len(RecentRelevantCrashes(crashes, cfg, nowMs)) >= cfg.maxCrashes

CanCall(k) == crash[k].op = "none" /\ ncrash < MaxCrashCalls

CrashEnv == UNCHANGED <<config, handlerVars, dispatchVars, serverVars>>

\* recordPotentialCrash(errorType) is called and its readCrashLog reads the file
RecordPotentialCrash(k) ==
  /\ CanCall(k)
  /\ \E errorType \in ErrorTypes, ok \in BOOLEAN :
       /\ crash' = [crash EXCEPT ![k] =
                      [op |-> "read", readOk |-> ok, errorType |-> errorType,
                       crashes |-> ReadCrashLog(crashLog, ok)]]
       /\ ioFailed' = (ioFailed \/ ~ok)
  /\ ncrash' = ncrash + 1
  /\ UNCHANGED <<crashLog, now, recorded>>
  /\ CrashEnv

\* the read has resolved: the entry is pushed with the time it is now, and
\* writeCrashLog is called
RecordPushed(k) ==
  /\ crash[k].op = "read"
  /\ LET entry == [timestamp |-> now, errorType |-> crash[k].errorType]
     IN /\ crash' = [crash EXCEPT ![k] =
                       [op |-> "record", readOk |-> crash[k].readOk,
                        crashes |-> Append(crash[k].crashes, entry)]]
        /\ recorded' = Append(recorded, entry)
  /\ UNCHANGED <<crashLog, now, ioFailed, ncrash>>
  /\ CrashEnv

\* its writeCrashLog(crashes) ends, and with it the call
RecordWritten(k) ==
  /\ crash[k].op = "record"
  /\ \E ok \in BOOLEAN :
       /\ crashLog' = WriteCrashLog(crashLog, crash[k].crashes, ok)
       /\ ioFailed' = (ioFailed \/ ~ok)
  /\ crash' = [crash EXCEPT ![k] = NoCrashCall]
  /\ UNCHANGED <<now, recorded, ncrash>>
  /\ CrashEnv

\* isCrashLoopDetected(cfg) is called and its readCrashLog reads the file
DetectCrashLoop(k) ==
  /\ CanCall(k)
  /\ \E cfg \in CrashLoopConfigs, ok \in BOOLEAN :
       crash' = [crash EXCEPT ![k] =
                   [op |-> "detect", readOk |-> ok, config |-> cfg, file |-> crashLog,
                    crashes |-> ReadCrashLog(crashLog, ok)]]
  /\ ncrash' = ncrash + 1
  /\ UNCHANGED <<crashLog, now, recorded, ioFailed>>
  /\ CrashEnv

\* the read has resolved: the answer is computed from the array that was read
\* and the time it is now
DetectEvaluated(k) ==
  /\ crash[k].op = "detect"
  /\ crash' = [crash EXCEPT ![k] =
                 [op |-> "detected", readOk |-> crash[k].readOk,
                  config |-> crash[k].config, file |-> crash[k].file, at |-> now,
                  result |-> IsCrashLoopDetected(crash[k].crashes, crash[k].config, now)]]
  /\ UNCHANGED <<crashLog, now, recorded, ioFailed, ncrash>>
  /\ CrashEnv

\* the caller has its answer
DetectReturn(k) ==
  /\ crash[k].op = "detected"
  /\ crash' = [crash EXCEPT ![k] = NoCrashCall]
  /\ UNCHANGED <<crashLog, now, recorded, ioFailed, ncrash>>
  /\ CrashEnv

\* resetCrashState: writeCrashLog([])
ResetCrashState(k) ==
  /\ CanCall(k)
  /\ \E ok \in BOOLEAN :
       /\ crashLog' = WriteCrashLog(crashLog, <<>>, ok)
       /\ recorded' = IF ok THEN <<>> ELSE recorded
       /\ ioFailed' = (ioFailed /\ ~ok)
  /\ ncrash' = ncrash + 1
  /\ UNCHANGED <<now, crash>>
  /\ CrashEnv

\* the clock advances by a minute, or by a millisecond past a whole minute
Tick ==
  /\ \E d \in {1, MsPerMinute} :
       /\ d = 1 => now % MsPerMinute = 0
       /\ now + d <= MaxMinutes * MsPerMinute
       /\ now' = now + d
  /\ UNCHANGED <<crashLog, crash, recorded, ioFailed, ncrash>>
  /\ CrashEnv

(***************************************************************************)
(* Initial states and specifications.                                      *)
(***************************************************************************)
DirectConfig == [use_direct_webhook |-> TRUE, smartapp_id |-> Undef]
CheckedConfig == [use_direct_webhook |-> TRUE, smartapp_id |-> "app1"]
LegacyConfig == [use_direct_webhook |-> FALSE, smartapp_id |-> Undef]
LegacyCheckedConfig == [use_direct_webhook |-> FALSE, smartapp_id |-> "app1"]

\* what smartapp_credentials.json holds after an earlier INSTALL
SavedFile == [installedAppId |-> "a1", authToken |-> "t1", refreshToken |-> "r1",
              locationId |-> "l1", savedAt |-> ToISOString(0)]

\* the subscriptions SmartThings holds: none, or those of an earlier run
NoSubscriptions == [a \in AppIdSet |-> {}]
OldSubscriptions ==
  [NoSubscriptions EXCEPT !["a1"] = {DeviceSub("d1"), DeviceSub("d3"), CapabilitySub}]

\* a first start, a restart after an install, a start with appId validation,
\* a start in legacy mode, without and with a configured appId
Starts == {[config |-> DirectConfig, disk |-> Absent, remote |-> NoSubscriptions],
           [config |-> DirectConfig, disk |-> SavedFile, remote |-> OldSubscriptions],
           [config |-> CheckedConfig, disk |-> Absent, remote |-> OldSubscriptions],
           [config |-> LegacyConfig, disk |-> Absent, remote |-> NoSubscriptions],
           [config |-> LegacyCheckedConfig, disk |-> Absent, remote |-> NoSubscriptions]}

InitCrashIdle ==
  /\ crashLog = NoFile
  /\ now = 0
  /\ crash = [k \in CrashSlots |-> NoCrashCall]
  /\ recorded = <<>>
  /\ ioFailed = FALSE
  /\ ncrash = 0

\* the accessories the platform has discovered
Accessories == <<"d1", "d2">>

\* the handler after the SmartAppHandler constructor: the credentials loaded,
\* no device id registered
Constructed(st) ==
  LET c == IF st.config.use_direct_webhook THEN LoadCredentials(st.disk)
           ELSE LoadCredentials(Absent)
  IN [installedAppId |-> c.installedAppId, authToken |-> c.authToken,
      refreshToken |-> c.refreshToken, locationId |-> c.locationId,
      deviceIds |-> <<>>, disk |-> st.disk, remote |-> st.remote,
      tasks |-> [s \in Slots |-> Idle]]

\* the polling loop before startService
PollOff == [pc |-> "off", n |-> 0, batch |-> <<>>, log |-> <<>>]

\* the state after the constructors have run from start `st` and listen has
\* ended: its callback has set isRunning, or it failed (the port is taken),
\* the error is logged and isRunning keeps its false, so that no request ever
\* reaches the server; no OAuth collaborator is registered yet, and the
\* SubscriptionHandler constructor has registered the accessories' ids with
\* setDeviceIds, whose promise is the first task
Webhook(st) ==
  /\ config = st.config
  /\ LET m == IF st.config.use_direct_webhook
              THEN SetDeviceIdsCall(Constructed(st), "s1", Accessories)
              ELSE Constructed(st)
     IN /\ installedAppId = m.installedAppId
        /\ authToken = m.authToken
        /\ refreshToken = m.refreshToken
        /\ locationId = m.locationId
        /\ deviceIds = m.deviceIds
        /\ disk = m.disk
        /\ remote = m.remote
        /\ tasks = m.tasks
  /\ nreq = 0
  /\ nfault = 0
  /\ lastInstall = Absent
  /\ devices = Accessories
  /\ shutdown = FALSE
  /\ poll = PollOff
  /\ isRunning \in BOOLEAN
  /\ authHandler = Null

Init == \E st \in Starts : Webhook(st) /\ InitCrashIdle

\* one handler at a time: a request arrives when the one before is answered
Next ==
  \/ LifecycleRequest("s1", IF config.smartapp_id = Undef THEN LifecycleMsgs
                             ELSE FewMsgs \cup ForeignMsgs, BOOLEAN)
  \/ MalformedRequest("s1")
  \/ LegacyRequest("s1")
  \/ HealthRequest("s1")
  \/ OtherRequest("s1")
  \/ SetDeviceIds("s1", DeviceLists)
  \/ Resume("s1")
  \/ Finish("s1")

Spec == Init /\ [][Next]_vars

\* direct mode with requests arriving while a handler is suspended
InitConc == \E st \in Starts : st.config = DirectConfig /\ st.disk = Absent /\ Webhook(st) /\ InitCrashIdle

NextConc ==
  \/ \E t \in Slots : LifecycleRequest(t, FewMsgs, {TRUE})
  \/ \E t \in Slots : HealthRequest(t)
  \/ \E t \in Slots : SetDeviceIds(t, {<<"d1">>})
  \/ \E t \in Slots : Resume(t)
  \/ \E t \in Slots : Finish(t)

SpecConc == InitConc /\ [][NextConc]_vars

\* the dispatcher: the legacy endpoint and the polling loop, in either mode,
\* until the service or the server alone is stopped
InitPoll == \E st \in Starts : st.disk = Absent /\ Webhook(st) /\ InitCrashIdle

\* EVENT messages whose items are device events, for either accessory
PushMsgs ==
  {Msg("EVENT", "app1", EventData(Cred1, es)) :
     es \in SeqsUpTo({DevEv("d1", "on"), DevEv("d2", "off")}, MaxBatch)}

NextPoll ==
  \/ Connect("s1")
  \/ LifecycleRequest("s1", PushMsgs, {TRUE})
  \/ LegacyRequest("s1")
  \/ Resume("s1")
  \/ Finish("s1")
  \/ StartService
  \/ PollAnswer
  \/ RetryWaitOver
  \/ StopService
  \/ Stop

SpecPoll == InitPoll /\ [][NextPoll]_vars

\* a log of n crashes recorded by earlier runs of the process
Filled(n) == [i \in 1..n |-> [timestamp |-> 0, errorType |-> "API_INIT_FAILURE"]]

StartLogs == {NoFile, File(Filled(MAX_LOG_ENTRIES - 1)), File(Filled(MAX_LOG_ENTRIES))}

\* the crash-loop manager alone, one call at a time
InitCrash ==
  /\ Webhook([config |-> DirectConfig, disk |-> Absent, remote |-> NoSubscriptions])
  /\ crashLog \in StartLogs
  /\ now = 0
  /\ crash = [k \in CrashSlots |-> NoCrashCall]
  /\ recorded = ReadCrashLog(crashLog, TRUE)
  /\ ioFailed = FALSE
  /\ ncrash = 0

NextCrash ==
  \/ RecordPotentialCrash("k1")
  \/ RecordPushed("k1")
  \/ RecordWritten("k1")
  \/ DetectCrashLoop("k1")
  \/ DetectEvaluated("k1")
  \/ DetectReturn("k1")
  \/ ResetCrashState("k1")
  \/ Tick

SpecCrash == InitCrash /\ [][NextCrash]_vars

\* what the constructors of the new process leave besides the handler: the
\* listen succeeds or fails, no OAuth collaborator, the polling loop not started
Restarted ==
  /\ isRunning' \in BOOLEAN
  /\ authHandler' = Null
  /\ shutdown' = FALSE
  /\ poll' = PollOff
  /\ UNCHANGED <<config, devices, crashVars>>

\* the process restarts while no handler runs: the constructors run again on
\* what the disk and SmartThings hold
Restart(t) ==
  /\ \A s \in Slots : tasks[s].pc = "idle"
  /\ nreq < MaxReqs
  /\ config.use_direct_webhook
  /\ Becomes(SetDeviceIdsCall(
       Constructed([config |-> config, disk |-> disk, remote |-> remote]), t, Accessories))
  /\ nreq' = nreq + 1
  /\ lastInstall' = Absent
  /\ UNCHANGED nfault
  /\ Restarted

\* the messages that change credentials
CredMsgs ==
  {Msg("INSTALL", "app1", Cred1), Msg("INSTALL", "app1", CredEmptyToken),
   Msg("INSTALL", "app1", CredNoToken), Msg("UPDATE", "app1", Cred2),
   Msg("EVENT", "app1", EventData(Cred2, <<DevEv("d1", "on")>>)),
   Msg("EVENT", "app1", EventData(NoToken, <<DevEv("d1", "on")>>)),
   Msg("UNINSTALL", "app1", Absent)}

\* the credentials across lifecycle messages, the settings page's clearing of
\* the token files, and restarts, in direct mode
InitCred == \E st \in Starts : st.config = DirectConfig /\ Webhook(st) /\ InitCrashIdle

NextCred ==
  \/ LifecycleRequest("s1", CredMsgs, BOOLEAN)
  \/ Resume("s1")
  \/ Finish("s1")
  \/ ClearAllTokens
  \/ Restart("s1")

SpecCred == InitCred /\ [][NextCred]_vars

\* the event loop and the registration, in direct mode: EVENT messages over
\* every kind of item, UPDATE, and registration calls
InitLoop == \E st \in Starts : st.config = DirectConfig /\ Webhook(st) /\ InitCrashIdle

NextLoop ==
  \/ LifecycleRequest("s1", LoopMsgs, {TRUE})
  \/ SetDeviceIds("s1", DeviceLists)
  \/ Resume("s1")
  \/ Finish("s1")

SpecLoop == InitLoop /\ [][NextLoop]_vars

\* requests that arrive while a handler waits for its remote call: every
\* lifecycle that suspends, and a PING
WaitMsgs ==
  {Msg("CONFIRMATION", "app1", [confirmationUrl |-> "u1"]),
   Msg("INSTALL", "app1", Cred1), Msg("UPDATE", "app1", Cred1),
   Msg("EVENT", "app1", EventData(Cred1, <<LifeEv("CREATE", "d3")>>)),
   Msg("PING", "app1", [challenge |-> "c1"])}

NextWait ==
  \/ \E t \in Slots : LifecycleRequest(t, WaitMsgs, {TRUE})
  \/ \E t \in Slots : HealthRequest(t)
  \/ \E t \in Slots : Resume(t)
  \/ \E t \in Slots : Finish(t)

SpecWait == InitConc /\ [][NextWait]_vars

\* one request at a time with the scheduling the code guarantees: a handler
\* that has returned is answered (the event loop runs it to res.end), but the
\* answer to an awaited call comes from the remote side alone, since the axios
\* calls of the handler carry no timeout option
NextHang ==
  \/ LifecycleRequest("s1", WaitMsgs, {TRUE})
  \/ Resume("s1")
  \/ Finish("s1")

SpecHang == InitConc /\ [][NextHang]_vars /\ WF_vars(Finish("s1"))

\* a message whose handler awaits remote calls, and one whose handler does not
RouteMsgs == {Msg("INSTALL", "app1", Cred1), Msg("PING", "app1", [challenge |-> "c1"])}

\* the router over its five branches, in either mode, from the start without
\* an OAuth collaborator to its registration and the callbacks it handles;
\* the server takes a request while the handlers of others are suspended
NextRoute ==
  \/ SetAuthHandler
  \/ \E t \in Slots : OtherRequest(t)
  \/ \E t \in Slots : OAuthSettles(t)
  \/ \E t \in Slots : LifecycleRequest(t, RouteMsgs, {TRUE})
  \/ \E t \in Slots : MalformedRequest(t)
  \/ \E t \in Slots : LegacyRequest(t)
  \/ \E t \in Slots : HealthRequest(t)
  \/ \E t \in Slots : Resume(t)
  \/ \E t \in Slots : Finish(t)

SpecRoute == Init /\ [][NextRoute]_vars

\* the messages that write or remove the credentials file
DiskMsgs ==
  {Msg("INSTALL", "app1", Cred1), Msg("UPDATE", "app1", Cred2),
   Msg("UNINSTALL", "app1", Absent)}

\* the SmartAppHandler constructor when reading the credentials file may
\* throw: loadCredentials catches the error and the four fields keep the null
\* they are declared with
ConstructedReading(st, readOk) ==
  LET c == Constructed(st)
  IN IF readOk THEN c
     ELSE [c EXCEPT !.installedAppId = Null, !.authToken = Null,
                    !.refreshToken = Null, !.locationId = Null]

\* the process restarts and its read of the credentials file succeeds or fails
RestartReading(t) ==
  /\ \A s \in Slots : tasks[s].pc = "idle"
  /\ nreq < MaxReqs
  /\ config.use_direct_webhook
  /\ \E readOk \in Outcomes :
       /\ Becomes(SetDeviceIdsCall(
            ConstructedReading([config |-> config, disk |-> disk, remote |-> remote],
                               readOk),
            t, Accessories))
       /\ Faulted(readOk)
  /\ nreq' = nreq + 1
  /\ lastInstall' = Absent
  /\ Restarted

\* the two files of the storage directory, each read and written with
\* failures: the credentials by the handler, the crash log by the manager.
\* The two share no state, so a behaviour follows the one or the other.
NextDisk ==
  \/ ncrash = 0 /\ LifecycleRequest("s1", DiskMsgs, BOOLEAN)
  \/ ncrash = 0 /\ Resume("s1")
  \/ ncrash = 0 /\ Finish("s1")
  \/ ncrash = 0 /\ RestartReading("s1")
  \/ nreq = 0 /\ RecordPotentialCrash("k1")
  \/ nreq = 0 /\ RecordPushed("k1")
  \/ nreq = 0 /\ RecordWritten("k1")
  \/ nreq = 0 /\ DetectCrashLoop("k1")
  \/ nreq = 0 /\ DetectEvaluated("k1")
  \/ nreq = 0 /\ DetectReturn("k1")

SpecDisk == InitCred /\ [][NextDisk]_vars

\* the messages that install, with and without a token, and those that
\* carry events, with and without credentials
RegMsgs ==
  {Msg("INSTALL", "app1", Cred1), Msg("INSTALL", "app1", CredNoToken),
   Msg("INSTALL", "app1", CredEmptyToken),
   Msg("EVENT", "app1", EventData(Cred1, <<DevEv("d1", "on")>>)),
   Msg("EVENT", "app1", EventData(NoToken, <<DevEv("d1", "on")>>)),
   Msg("UNINSTALL", "app1", Absent)}

\* the registration calls of the consumer between the lifecycle messages
NextReg ==
  \/ LifecycleRequest("s1", RegMsgs, {TRUE})
  \/ SetDeviceIds("s1", DeviceLists)
  \/ Resume("s1")
  \/ Finish("s1")

SpecReg == InitCred /\ [][NextReg]_vars

\* EVENT messages, with the credentials of one installation or another, or
\* with none
FirstMsgs ==
  {Msg("EVENT", "app1", EventData(c, <<DevEv("d1", "on")>>)) : c \in {Cred1, Cred2, NoToken}}
  \cup {Msg("EVENT", "app1", EventData(Cred1, <<LifeEv("CREATE", "d3")>>))}

\* EVENT messages alone, arriving while the handler of another is suspended,
\* from a start without credentials
NextFirst ==
  \/ \E t \in Slots : LifecycleRequest(t, FirstMsgs, {TRUE})
  \/ \E t \in Slots : Resume(t)
  \/ \E t \in Slots : Finish(t)

SpecFirst == InitConc /\ [][NextFirst]_vars

\* recordPotentialCrash called again before an earlier call has written
NextCrashConc ==
  \/ \E k \in CrashSlots : RecordPotentialCrash(k)
  \/ \E k \in CrashSlots : RecordPushed(k)
  \/ \E k \in CrashSlots : RecordWritten(k)
  \/ Tick

SpecCrashConc == InitCrash /\ [][NextCrashConc]_vars

\* a log of earlier runs: a crash of a relevant kind followed by n others
Mixed(n) ==
  <<[timestamp |-> 0, errorType |-> "API_INIT_FAILURE"]>>
  \o [i \in 1..n |-> [timestamp |-> 0, errorType |-> "OTHER"]]

\* the manager on a log that is nearly full of crashes of other kinds
InitEvict ==
  /\ Webhook([config |-> DirectConfig, disk |-> Absent, remote |-> NoSubscriptions])
  /\ crashLog \in {NoFile, File(Mixed(MAX_LOG_ENTRIES - 2))}
  /\ now = 0
  /\ crash = [k \in CrashSlots |-> NoCrashCall]
  /\ recorded = ReadCrashLog(crashLog, TRUE)
  /\ ioFailed = FALSE
  /\ ncrash = 0

NextEvict ==
  \/ RecordPotentialCrash("k1")
  \/ RecordPushed("k1")
  \/ RecordWritten("k1")
  \/ DetectCrashLoop("k1")
  \/ DetectEvaluated("k1")
  \/ DetectReturn("k1")
  \/ Tick

SpecEvict == InitEvict /\ [][NextEvict]_vars

(***************************************************************************)
(* Properties.                                                             *)
(***************************************************************************)
\* positions of the log whose entry is of kind `op`
At(log, op) == {i \in DOMAIN log : log[i].op = op}

\* no remote call of the log has failed
Clean(log) == \A i \in At(log, "answer") : log[i].is # "fail"

\* times x occurs in the sequence
Occ(seq, x) == Cardinality({j \in DOMAIN seq : seq[j] = x})

\* the device ids of the DEVICE subscriptions among `subs`
DeviceIdsOf(subs) == {x.deviceId : x \in {y \in subs : y.sourceType = "DEVICE"}}

\* the ids of the create calls the log shows at program point pc, in order
CreatedAt(log, pc) ==
  LET calls == SelectSeq(log, LAMBDA e : e.op = "create" /\ e.pc = pc)
  IN [j \in DOMAIN calls |-> calls[j].sub.deviceId]

Answered200(t, lc) ==
  /\ tasks[t].pc = "done"
  /\ tasks[t].route = "smartapp"
  /\ tasks[t].lc = lc
  /\ tasks[t].status = 200

Suspended(t) ==
  tasks[t].pc \in {"list", "create", "lifecycle", "delete", "newdevice", "fetch"}

\* C1: a PING with a non-empty challenge is answered 200 with that challenge
\* and nothing else, whatever the credentials are and whatever other handler
\* is suspended.
C1_PingEchoesChallenge ==
  \A t \in Slots :
    (/\ tasks[t].pc = "done"
     /\ tasks[t].route = "smartapp"
     /\ tasks[t].lc = "PING"
     /\ tasks[t].req.data # Absent
     /\ Truthy(Get(tasks[t].req.data, "challenge")))
    => /\ tasks[t].status = 200
       /\ tasks[t].resp = [statusCode |-> 200,
                           pingData |-> [challenge |-> tasks[t].req.data.challenge]]

\* a PING is answered 200 with its challenge while another handler waits for
\* a remote call
C1_PingWhileSuspended ==
  \E t, u \in Slots :
    /\ t # u
    /\ Answered200(t, "PING")
    /\ tasks[t].resp.pingData.challenge = "c2"
    /\ Suspended(u)

\* the sync run of task t is over: its list call is answered at position i and
\* the loop over the missing ids has ended
SyncOver(t, i) ==
  /\ i \in At(tasks[t].log, "answer")
  /\ i > 1
  /\ tasks[t].log[i - 1].op = "list"
  /\ tasks[t].pc \notin {"list", "create"}

\* C2 as stated: one sync run issues exactly |D - R_device| create calls (none
\* when D is a subset of R_device), also when the list call fails.
C2_CreatesAreDMinusR ==
  \A t \in Slots : \A i \in DOMAIN tasks[t].log :
    SyncOver(t, i)
    => LET log == tasks[t].log
           D == Range(log[i + 1].ids)
           Rdevice == DeviceIdsOf(log[i].had)
       IN Len(CreatedAt(log, "create")) = Cardinality(D \ Rdevice)

\* C2 amended: one sync run issues one create call for every entry of the
\* registered list whose id is not in E, where E is R_device when the list
\* call succeeds and the empty set when it fails.
C2_CreatesPerMissingEntry ==
  \A t \in Slots : \A i \in DOMAIN tasks[t].log :
    SyncOver(t, i)
    => LET log == tasks[t].log
           ids == log[i + 1].ids
           E == IF log[i].is = "ok" THEN DeviceIdsOf(log[i].had) ELSE {}
       IN \A d \in DeviceIdSet :
            Occ(CreatedAt(log, "create"), d) = IF d \in E THEN 0 ELSE Occ(ids, d)

\* a sync run whose list call succeeded has created the one missing subscription
C2_OneMissingCreated ==
  \E t \in Slots : \E i \in DOMAIN tasks[t].log :
    /\ SyncOver(t, i)
    /\ tasks[t].log[i].is = "ok"
    /\ tasks[t].log[i + 1].ids = <<"d1", "d2">>
    /\ DeviceIdsOf(tasks[t].log[i].had) = {"d1", "d3"}
    /\ CreatedAt(tasks[t].log, "create") = <<"d2">>

\* the installation holds one DEVICE subscription per registered id, none for
\* another id, and the DEVICE_LIFECYCLE subscription
RemoteMatches(app) ==
  /\ DeviceIdsOf(remote[app]) = Range(deviceIds)
  /\ LifecycleSub \in remote[app]

\* C3 as stated: after an UPDATE the remote set matches the registration,
\* whatever it was before.
C3_UpdateRebuilds ==
  \A t \in Slots :
    (Answered200(t, "UPDATE") /\ installedAppId \in AppIdSet)
    => RemoteMatches(installedAppId)

\* C3 amended: after an UPDATE whose delete call and create calls all
\* succeeded (or answered 409), the remote set matches the registration,
\* whatever it was before.
C3_UpdateRebuildsWhenCallsSucceed ==
  \A t \in Slots :
    (Answered200(t, "UPDATE") /\ installedAppId \in AppIdSet /\ Clean(tasks[t].log))
    => RemoteMatches(installedAppId)

\* an UPDATE has replaced a remote set that held a subscription of an
\* unregistered device and no lifecycle subscription
C3_UpdateReplacedOldSet ==
  \E t \in Slots :
    /\ Answered200(t, "UPDATE")
    /\ installedAppId \in AppIdSet
    /\ Clean(tasks[t].log)
    /\ deviceIds = <<"d1", "d2">>
    /\ \E i \in At(tasks[t].log, "answer") :
         /\ tasks[t].log[i - 1].op = "delete"
         /\ DeviceSub("d3") \in tasks[t].log[i].had
         /\ LifecycleSub \notin tasks[t].log[i].had

Credentials == <<installedAppId, authToken, refreshToken, locationId>>

\* the credentials a file holds: its record without the time of the write
Persisted(file) ==
  IF file = Absent THEN Absent
  ELSE [f \in DOMAIN file \ {"savedAt"} |-> file[f]]

\* task t has handled the INSTALL payload that the request before it carried
SecondInstall(t) ==
  /\ tasks[t].pc = "done"
  /\ tasks[t].route = "smartapp"
  /\ tasks[t].lc = "INSTALL"
  /\ lastInstall # Absent
  /\ lastInstall.req = tasks[t].req

\* C4 as stated: the second of two equal INSTALLs in a row returns 200 and
\* leaves the in-memory credentials, the persisted credentials and the remote
\* set as the first left them.
C4_InstallTwice ==
  \A t \in Slots :
    SecondInstall(t)
    => /\ tasks[t].status = 200
       /\ Credentials = lastInstall.credentials
       /\ Persisted(disk) = Persisted(lastInstall.disk)
       /\ remote = lastInstall.remote

\* C4 amended: the second of two equal INSTALLs in a row returns 200 and
\* leaves the in-memory credentials as the first left them; the persisted
\* credentials too when the first call's write succeeded, and the remote set
\* too when no create call of the first call failed.
C4_InstallTwiceWhenFirstSucceeded ==
  \A t \in Slots :
    SecondInstall(t)
    => /\ tasks[t].status = 200
       /\ tasks[t].resp = [statusCode |-> 200, installData |-> EmptyObject]
       /\ Credentials = lastInstall.credentials
       /\ Persisted(lastInstall.disk) = Stringify([installedAppId |-> installedAppId,
                                                   authToken |-> authToken,
                                                   refreshToken |-> refreshToken,
                                                   locationId |-> locationId])
            => Persisted(disk) = Persisted(lastInstall.disk)
       /\ Clean(lastInstall.log) => remote = lastInstall.remote

\* a second INSTALL whose create calls were all answered 409 has returned 200
C4_SecondInstallAbsorbed409 ==
  \E t \in Slots :
    /\ SecondInstall(t)
    /\ tasks[t].status = 200
    /\ At(tasks[t].log, "answer") # {}
    /\ \A i \in At(tasks[t].log, "answer") : tasks[t].log[i].is = "conflict"
    /\ remote = lastInstall.remote
    /\ disk # Absent
    /\ Persisted(disk) = Persisted(lastInstall.disk)

\* an EVENT handled while the handler was installed: the items of its list
EventHandled(t) == Answered200(t, "EVENT") /\ tasks[t].inst

DeviceItems(events) ==
  {i \in DOMAIN events :
     events[i].eventType = "DEVICE_EVENT" /\ events[i].deviceEvent # Absent}

CreateItems(events) ==
  SelectSeq(events, LAMBDA e : /\ e.eventType = "DEVICE_LIFECYCLE_EVENT"
                               /\ e.deviceLifecycleEvent # Absent
                               /\ e.deviceLifecycleEvent.lifecycle = "CREATE")

\* n events dispatched, and one create call per CREATE item, in their order
EventCounts(t) ==
  LET events == tasks[t].req.data.events
      creates == CreateItems(events)
  IN /\ Cardinality(At(tasks[t].log, "notify")) = Cardinality(DeviceItems(events))
     /\ CreatedAt(tasks[t].log, "newdevice")
          = [j \in DOMAIN creates |-> creates[j].deviceLifecycleEvent.deviceId]

\* C5 as stated: an EVENT with n device items and m CREATE items, handled with
\* credentials present, dispatches n events, issues m create calls, one per
\* CREATE'd id, and every CREATE'd id is registered when the handler returns.
C5_EventCreatesRegistered ==
  \A t \in Slots :
    EventHandled(t)
    => /\ EventCounts(t)
       /\ \A d \in Range(CreatedAt(tasks[t].log, "newdevice")) : d \in Range(deviceIds)

\* C5 amended: as above, but the ids registered when the handler returns are
\* those whose create call succeeded or answered 409.
C5_EventCreatesRegisteredIfCreated ==
  \A t \in Slots :
    EventHandled(t)
    => /\ EventCounts(t)
       /\ \A i \in At(tasks[t].log, "create") :
            (tasks[t].log[i].pc = "newdevice" /\ tasks[t].log[i + 1].is # "fail")
            => tasks[t].log[i].sub.deviceId \in Range(deviceIds)

\* an EVENT with a device item and a CREATE item has dispatched one event and
\* registered the new device
C5_EventWithCreateHandled ==
  \E t \in Slots :
    /\ EventHandled(t)
    /\ Len(tasks[t].req.data.events) = 2
    /\ Cardinality(At(tasks[t].log, "notify")) = 1
    /\ CreatedAt(tasks[t].log, "newdevice") = <<"d3">>
    /\ \E i \in At(tasks[t].log, "answer") : tasks[t].log[i].is = "ok"
    /\ deviceIds = <<"d1", "d2", "d3">>

\* the entries of the persisted log that count for cfg at time nowMs
RelevantInWindow(file, cfg, nowMs) ==
  {i \in DOMAIN file.data :
     /\ nowMs - file.data[i].timestamp <= cfg.timeWindowMinutes * MsPerMinute
     /\ (cfg.relevantErrorTypes = <<>>
         \/ file.data[i].errorType \in Range(cfg.relevantErrorTypes))}

\* C6 as stated: isCrashLoopDetected (its read of the log succeeding) returns
\* true exactly when the entries within the window and of a relevant kind
\* number at least maxCrashes, the empty log and maxCrashes = 0 included.
C6_DetectedIffThreshold ==
  \A k \in CrashSlots :
    (crash[k].op = "detected" /\ crash[k].readOk)
    => crash[k].result
         = (Cardinality(RelevantInWindow(crash[k].file, crash[k].config, crash[k].at))
              >= crash[k].config.maxCrashes)

NoRecordInFlight == \A k \in CrashSlots : crash[k].op # "record"

\* the last n elements of the sequence
LastOf(seq, n) == [j \in 1..(IF Len(seq) > n THEN n ELSE Len(seq)) |->
                     seq[j + (IF Len(seq) > n THEN Len(seq) - n ELSE 0)]]

\* C7 as stated: after any number of recordPotentialCrash calls the log holds
\* at most 20 entries: the most recent recorded ones, in recording order.
C7_LogIsMostRecent ==
  /\ Len(crashLog.data) <= 20
  /\ NoRecordInFlight => crashLog.data = LastOf(recorded, 20)

\* C7 amended: the log holds at most 20 entries; as long as every read and
\* write of the log file has succeeded, they are the most recent recorded
\* ones, in recording order.
C7_LogIsMostRecentWhenIoSucceeds ==
  /\ Len(crashLog.data) <= 20
  /\ (NoRecordInFlight /\ ~ioFailed) => crashLog.data = LastOf(recorded, 20)

\* a 21st and a 22nd entry were recorded and the two oldest dropped
C7_OldestDropped ==
  /\ NoRecordInFlight
  /\ ~ioFailed
  /\ Len(recorded) = 22
  /\ Len(crashLog.data) = 20
  /\ crashLog.data[20].errorType = "OTHER"
  /\ crashLog.data[19] = recorded[21]

\* task t takes a body that does not parse at the lifecycle endpoint
MalformedArrives(t) ==
  /\ tasks[t].pc = "idle"
  /\ tasks'[t].pc = "done"
  /\ tasks'[t].route = "smartapp"
  /\ tasks'[t].req = Malformed

\* ... and is answered
MalformedAnswered(t) ==
  /\ tasks[t].pc = "done"
  /\ tasks[t].route = "smartapp"
  /\ tasks[t].req = Malformed
  /\ tasks'[t].pc = "idle"

StateKept == UNCHANGED <<installedAppId, authToken, refreshToken, locationId, disk,
                         deviceIds, remote>>

\* C8 as stated: a body that is not JSON, sent to the lifecycle endpoint, is
\* answered 400, and credentials (in memory and persisted), registration and
\* remote set are as before.
C8_MalformedIs400 ==
  [][\A t \in Slots :
       /\ MalformedArrives(t) => (tasks'[t].status = 400 /\ StateKept)
       /\ MalformedAnswered(t) => StateKept]_vars

\* C8 amended: such a request is answered 400 in direct mode and 500 when
\* direct mode is disabled (no lifecycle handler exists); credentials,
\* registration and remote set are as before.
C8_MalformedIs400InDirectMode ==
  [][\A t \in Slots :
       /\ MalformedArrives(t)
            => /\ tasks'[t].status = IF config.use_direct_webhook THEN 400 ELSE 500
               /\ StateKept
       /\ MalformedAnswered(t) => StateKept]_vars

\* a malformed body was answered 400 by an installed handler with subscriptions
C8_MalformedAnsweredInstalled ==
  \E t \in Slots :
    /\ tasks[t].pc = "done"
    /\ tasks[t].route = "smartapp"
    /\ tasks[t].req = Malformed
    /\ tasks[t].status = 400
    /\ installedAppId \in AppIdSet
    /\ disk # Absent
    /\ LifecycleSub \in remote[installedAppId]

\* the accessories registered for the device id
ConsumersOf(d) == {k \in DOMAIN devices : devices[k] = d}

\* C9: an event for a device id without consumer reaches no consumer and
\* raises no error; an event for a registered id, also after such events,
\* reaches exactly the consumer of that id, once.
C9_UnregisteredDropped ==
  \A t \in Slots :
    LET log == tasks[t].log
    IN /\ \A i \in At(log, "notify") :
            LET d == log[i].event.deviceId
            IN IF ConsumersOf(d) = {}
               THEN i = Len(log) \/ log[i + 1].op \notin {"processEvent", "caught"}
               ELSE /\ i < Len(log)
                    /\ log[i + 1].op = "processEvent"
                    /\ devices[log[i + 1].device] = d
                    /\ log[i + 1].event = log[i].event
                    /\ i + 1 = Len(log) \/ log[i + 2].op # "processEvent"
       /\ \A i \in At(log, "processEvent") : i > 1 /\ log[i - 1].op = "notify"

\* an event of an unregistered device was dropped and a later event of
\* the same message reached its consumer
C9_DeliveredAfterDrops ==
  \E t \in Slots :
    LET log == tasks[t].log
    IN \E i, j \in At(log, "notify") :
         /\ i < j
         /\ log[i].event.deviceId = "d3"
         /\ log[j].event.deviceId = "d1"
         /\ log[j + 1].op = "processEvent"
         /\ tasks[t].pc = "done"
         /\ tasks[t].status = 200

\* the events of the batch that have a consumer
WithConsumer(batch) == {i \in DOMAIN batch : ConsumersOf(batch[i].deviceId) # {}}

\* C10 as stated: a consumer's error is caught on every transport: the other
\* events of the batch are dispatched and the ingress path goes on (a push
\* EVENT and a legacy request are answered 200, the polling loop polls again
\* without the retry wait).
C10_ConsumerErrorContained ==
  /\ \A t \in Slots :
       /\ Answered200(t, "EVENT")
            => Cardinality(At(tasks[t].log, "processEvent"))
                 = Cardinality(WithConsumer(
                     [i \in DOMAIN tasks[t].req.data.events |->
                        tasks[t].req.data.events[i].deviceEvent]))
       /\ (tasks[t].pc = "done" /\ tasks[t].route = "legacy" /\ tasks[t].log # <<>>)
            => tasks[t].status = 200
  /\ poll.batch # <<>>
       => /\ Cardinality(At(poll.log, "processEvent"))
               = Cardinality(WithConsumer(poll.batch))
          /\ poll.pc # "waiting"

\* the lifecycle message a task's request carried (Absent for a body that
\* does not parse)
MessageOf(req) ==
  IF "json" \in DOMAIN req THEN (IF req.json THEN req.value ELSE Absent) ELSE req

\* task t takes a lifecycle message whose appId is not the configured one
ForeignArrives(t) ==
  /\ tasks[t].pc = "idle"
  /\ tasks'[t].route = "smartapp"
  /\ Truthy(config.smartapp_id)
  /\ MessageOf(tasks'[t].req) # Absent
  /\ Get(MessageOf(tasks'[t].req), "appId") # config.smartapp_id

\* ... and is answered
ForeignAnswered(t) ==
  /\ tasks[t].pc = "done"
  /\ tasks[t].route = "smartapp"
  /\ Truthy(config.smartapp_id)
  /\ MessageOf(tasks[t].req) # Absent
  /\ Get(MessageOf(tasks[t].req), "appId") # config.smartapp_id
  /\ tasks'[t].pc = "idle"

\* the lifecycle handler was not invoked for the request of the task
NotHandled(task) == task.lc = "NONE" /\ task.log = <<>>

\* C11 as stated: with a configured application identifier, a lifecycle
\* message whose appId differs from it or is absent is answered 403, the
\* lifecycle handler is not invoked and credentials, registration and remote
\* set are as before; without a configured identifier nothing is answered 403.
C11_ForeignAppIs403 ==
  [][\A t \in Slots :
       /\ ForeignArrives(t)
            => /\ tasks'[t].pc = "done"
               /\ tasks'[t].status = 403
               /\ NotHandled(tasks'[t])
               /\ StateKept
       /\ ForeignAnswered(t) => StateKept
       /\ ~Truthy(config.smartapp_id) => tasks'[t].status # 403]_vars

\* C11 amended: as stated in direct mode; when direct mode is disabled the
\* answer is 500 (no lifecycle handler exists), still without any change of
\* state.
C11_ForeignAppIs403InDirectMode ==
  [][\A t \in Slots :
       /\ ForeignArrives(t)
            => /\ tasks'[t].pc = "done"
               /\ tasks'[t].status = IF config.use_direct_webhook THEN 403 ELSE 500
               /\ NotHandled(tasks'[t])
               /\ StateKept
       /\ ForeignAnswered(t) => StateKept
       /\ ~Truthy(config.smartapp_id) => tasks'[t].status # 403]_vars

\* an UNINSTALL of another SmartApp was answered 403 by an installed handler
C11_ForeignUninstallRejected ==
  \E t \in Slots :
    /\ tasks[t].pc = "done"
    /\ tasks[t].status = 403
    /\ tasks[t].req.lifecycle = "UNINSTALL"
    /\ tasks[t].req.appId = "app2"
    /\ installedAppId = "a1"
    /\ disk # Absent

\* the lifecycle handler takes an UNINSTALL in task t
UninstallHandled(t) ==
  /\ tasks[t].pc = "idle"
  /\ tasks'[t].route = "smartapp"
  /\ tasks'[t].lc = "UNINSTALL"

\* the handler's part of C12: answered 200 within the step, the credentials in
\* memory all absent, no remote call issued, the registration and the remote
\* set as before
UninstallClears(t) ==
  /\ tasks'[t].pc = "done"
  /\ tasks'[t].status = 200
  /\ installedAppId' = Null /\ authToken' = Null
  /\ refreshToken' = Null /\ locationId' = Null
  /\ ~IsInstalled(M)'
  /\ tasks'[t].log = <<>>
  /\ UNCHANGED <<deviceIds, remote>>

\* C12 as stated: after an UNINSTALL, from any state, the credentials in
\* memory are absent, the credentials file no longer exists, no remote call
\* was issued, the registration is unchanged and the status is 200.
C12_UninstallClearsAll ==
  [][\A t \in Slots :
       UninstallHandled(t) => (UninstallClears(t) /\ disk' = Absent)]_vars

\* C12 amended: the credentials file no longer exists provided its removal
\* did not fail; when the removal fails the file is as before.
C12_UninstallClearsUnlessUnlinkFails ==
  [][\A t \in Slots :
       UninstallHandled(t)
         => /\ UninstallClears(t)
            /\ disk' = IF nfault' = nfault THEN Absent ELSE disk]_vars

\* an installed handler with a credentials file and remote subscriptions has
\* answered an UNINSTALL: nothing of the credentials is left
C12_UninstalledFromInstalled ==
  \E t \in Slots :
    /\ Answered200(t, "UNINSTALL")
    /\ tasks[t].inst
    /\ tasks[t].log = <<>>
    /\ ~IsInstalled(M)
    /\ disk = Absent
    /\ deviceIds = <<"d1", "d2">>
    /\ DeviceSub("d1") \in remote["a1"]

\* what a restart would load from the credentials file
Reloaded == LoadCredentials(disk)

InMemory == [installedAppId |-> installedAppId, authToken |-> authToken,
             refreshToken |-> refreshToken, locationId |-> locationId]

NoHandlerRunning == \A s \in Slots : tasks[s].pc = "idle"

\* C13 as stated (and only for runs in which no write and no call has
\* failed): whenever no handler is running, the credentials file holds the
\* credentials in memory, so that a restart reloads exactly them (a field
\* that is empty or undefined in memory counting as absent).
C13_PersistedEqualsMemory ==
  (NoHandlerRunning /\ nfault = 0)
  => \A f \in DOMAIN InMemory : Reloaded[f] = OrNull(InMemory[f])

\* a value that is set: neither null nor undefined
IsSet(v) == v # Null /\ v # Undef

\* C14 as stated: authToken and installedAppId are both set or both absent,
\* and isInstalled is true exactly when both are set.
C14_SetTogether ==
  /\ IsSet(authToken) <=> IsSet(installedAppId)
  /\ IsInstalled(M) <=> (IsSet(authToken) /\ IsSet(installedAppId))

\* eventData that carries credentials
CarriesCredentials(data) ==
  /\ data # Absent
  /\ Truthy(Get(data, "authToken"))
  /\ data.installedApp # Absent

\* an uninstalled handler with registered devices takes an EVENT that carries
\* credentials
FirstEventArrives(t) ==
  /\ tasks[t].pc = "idle"
  /\ tasks'[t].route = "smartapp"
  /\ tasks'[t].lc = "EVENT"
  /\ ~IsInstalled(M)
  /\ Len(deviceIds) > 0
  /\ CarriesCredentials(tasks'[t].req.data)

\* the credentials of the message are stored and the handler waits for the
\* list call of the reconciliation, nothing dispatched yet
StoredAndSyncing(t) ==
  LET data == tasks'[t].req.data
  IN /\ authToken' = data.authToken
     /\ installedAppId' = data.installedApp.installedAppId
     /\ locationId' = data.installedApp.locationId
     /\ tasks'[t].pc = "list"
     /\ Len(tasks'[t].log) = 1
     /\ tasks'[t].log[1].op = "list"

\* the entries of a handler's log that belong to the items of the event list
ItemEntries(log) ==
  {i \in DOMAIN log : \/ log[i].op \in {"notify", "lifecycle"}
                      \/ (log[i].op = "create" /\ log[i].pc = "newdevice")}

\* the entries that belong to the reconciliation and the lifecycle subscription
SyncEntries(log) ==
  {i \in DOMAIN log : \/ log[i].op = "list"
                      \/ (log[i].op = "create" /\ log[i].pc \in {"create", "lifecycle"})}

\* an EVENT handled with credentials present runs no reconciliation; one that
\* began with the list call has the lifecycle-subscription call answered
\* before the first entry of an item
EventOrder(t) ==
  LET log == tasks[t].log
  IN tasks[t].lc = "EVENT"
     => IF tasks[t].inst THEN SyncEntries(log) = {}
        ELSE (log # <<>> /\ log[1].op = "list")
             => \A i \in ItemEntries(log) :
                  \E j \in SyncEntries(log) :
                    /\ log[j].pc = "lifecycle"
                    /\ j + 1 < i
                    /\ log[j + 1].op = "answer"
                    /\ \A k \in SyncEntries(log) : k <= j

\* C15: starting uninstalled with registered devices, the first EVENT that
\* carries credentials stores them and runs the missing-only reconciliation
\* and the lifecycle-subscription creation before any item of its list is
\* dispatched; an EVENT handled with credentials present runs neither.
C15_FirstEventSyncsBeforeDispatch ==
  [][\A t \in Slots :
       /\ FirstEventArrives(t) => StoredAndSyncing(t)
       /\ EventOrder(t)']_vars

\* a first EVENT has listed, created the two missing subscriptions and the
\* lifecycle subscription, and then dispatched its device event
C15_SyncedThenDispatched ==
  \E t \in Slots :
    /\ Answered200(t, "EVENT")
    /\ ~tasks[t].inst
    /\ Len(tasks[t].log) > 2
    /\ tasks[t].log[1].op = "list"
    /\ CreatedAt(tasks[t].log, "create") = <<"d1", "d2">>
    /\ LifecycleSub \in remote["a1"]
    /\ tasks[t].log[Len(tasks[t].log) - 1].op = "notify"
    /\ installedAppId = "a1"

\* the device ids of the DEVICE subscriptions SmartThings holds, whatever the
\* installation they were created under
SubscribedIds == UNION {DeviceIdsOf(remote[a]) : a \in DOMAIN remote}

\* C16 as stated: when no remote call has failed, once the installation is
\* installed (the installed app id and the token are both there) and no
\* handler is in flight, every registered device id has a remote DEVICE
\* subscription, under whichever installation.
C16_RegistrationSubscribed ==
  (nfault = 0 /\ NoHandlerRunning /\ ~MissingCredentials(M))
  => Range(deviceIds) \subseteq SubscribedIds

\* the confirmation URL of the message of task t (undefined when missing)
ConfirmationUrl(t) ==
  IF tasks[t].req.data = Absent THEN Undef
  ELSE Get(tasks[t].req.data, "confirmationUrl")

\* the handler of task t has returned from a CONFIRMATION: without URL 400 and
\* no fetch; with a URL one fetch of it, and the status `onResponse` when the
\* fetch ended with a response of a status that is not 2xx
ConfirmationOutcome(t, onResponse) ==
  (tasks[t].pc = "done" /\ tasks[t].route = "smartapp" /\ tasks[t].lc = "CONFIRMATION")
  => LET log == tasks[t].log
     IN IF ~Truthy(ConfirmationUrl(t))
        THEN tasks[t].status = 400 /\ log = <<>>
        ELSE /\ Len(log) = 2
             /\ log[1].op = "fetch" /\ log[1].url = ConfirmationUrl(t)
             /\ log[2].op = "fetched"
             /\ tasks[t].status = CASE log[2].is = "ok" -> 200
                                    [] log[2].is = "status" -> onResponse
                                    [] log[2].is = "fail" -> 500

\* a step of a CONFIRMATION handler
ConfirmationStep(t) ==
  tasks[t].lc = "CONFIRMATION" \/ tasks'[t].lc = "CONFIRMATION"

\* C17 as stated: a CONFIRMATION issues one fetch of the URL, without retry,
\* and returns 200 whenever the fetch yields any response, 500 only when the
\* fetch itself errors, 400 without a fetch when the URL is missing;
\* credentials and registration are unchanged.
C17_ConfirmationAnyResponse ==
  [][\A t \in Slots :
       /\ ConfirmationOutcome(t, 200)'
       /\ ConfirmationStep(t)
            => UNCHANGED <<installedAppId, authToken, refreshToken, locationId,
                           disk, deviceIds>>]_vars

\* C17 amended: 200 when the fetch yields a response of status 2xx, 500 when
\* it yields a response of another status or no response.
C17_Confirmation2xxResponse ==
  [][\A t \in Slots :
       /\ ConfirmationOutcome(t, 500)'
       /\ ConfirmationStep(t)
            => UNCHANGED <<installedAppId, authToken, refreshToken, locationId,
                           disk, deviceIds>>]_vars

\* an installed handler has fetched the confirmation URL and answered 200
C17_ConfirmedWhileInstalled ==
  \E t \in Slots :
    /\ Answered200(t, "CONFIRMATION")
    /\ Len(tasks[t].log) = 2
    /\ tasks[t].log[1].url = "u1"
    /\ tasks[t].log[2].is = "ok"
    /\ IsInstalled(M)
    /\ disk # Absent

\* the handler of task t has returned from an INSTALL or UPDATE whose payload
\* names the installation
InstallOrUpdateOver(t) ==
  /\ tasks[t].pc = "done"
  /\ tasks[t].route = "smartapp"
  /\ tasks[t].lc \in {"INSTALL", "UPDATE"}
  /\ tasks[t].req.data # Absent
  /\ tasks[t].req.data.installedApp # Absent

\* positions of the device create calls of the log that failed
FailedCreates(log) ==
  {i \in At(log, "create") :
     log[i].pc = "create" /\ i < Len(log) /\ log[i + 1].op = "answer" /\ log[i + 1].is = "fail"}

\* the lifecycle-subscription create is in the log, after every device create
LifecycleAttemptedLast(log) ==
  \E i \in At(log, "create") :
    /\ log[i].pc = "lifecycle"
    /\ \A j \in At(log, "create") : log[j].pc = "create" => j < i

\* C18: during INSTALL and UPDATE a create call is attempted for every
\* registered device id whatever subset of the calls fails, the lifecycle
\* subscription create is attempted afterwards, and the status is 200.
C18_FailedCreateDoesNotStop ==
  \A t \in Slots :
    InstallOrUpdateOver(t)
    => /\ CreatedAt(tasks[t].log, "create") = deviceIds
       /\ LifecycleAttemptedLast(tasks[t].log)
       /\ tasks[t].status = 200

\* an INSTALL whose create for the first of two devices failed went on to the
\* second device and to the lifecycle subscription
C18_WentOnAfterFailure ==
  \E t \in Slots :
    /\ InstallOrUpdateOver(t)
    /\ tasks[t].lc = "INSTALL"
    /\ deviceIds = <<"d1", "d2">>
    /\ \E i \in FailedCreates(tasks[t].log) :
         /\ tasks[t].log[i].sub = DeviceSub("d1")
         /\ \E j \in At(tasks[t].log, "create") : j > i /\ tasks[t].log[j].sub = DeviceSub("d2")

\* the (path, method) pairs of the endpoint table
ListedEndpoint(ep) ==
  \/ ep.pathname = "/smartapp" /\ ep.method = "POST"
  \/ ep.pathname = "/" /\ ep.method = "POST"
  \/ ep.pathname = "/oauth/callback" /\ ep.method = "GET"
  \/ ep.pathname = "/health" /\ ep.method = "GET"

\* the bodies a request may carry
RequestBodies ==
  {Json(request) : request \in FewMsgs} \cup {Json(e) : e \in ShortEvents} \cup {Malformed}

\* this step is the arrival at task t of a request for endpoint ep
ArrivesAt(t, ep) ==
  /\ CanAccept(t)
  /\ \E body \in RequestBodies, called \in OAuthCalls :
       Becomes(OnRequest(M, t, ep, body, TRUE, called))

\* C19: a request whose (path, method) is not in the endpoint table is
\* answered 404 and reaches none of the lifecycle handler, the OAuth
\* collaborator and the event dispatcher.
C19_UnlistedIs404 ==
  [][\A t \in Slots : \A ep \in Endpoints :
       (ArrivesAt(t, ep) /\ ~ListedEndpoint(ep))
       => /\ tasks'[t].route = "notfound"
          /\ tasks'[t].status = 404]_vars

\* this step is the arrival of a health probe at task t
ProbeArrives(t) == tasks[t].pc = "idle" /\ tasks'[t].route = "health"

\* C20: a health probe is answered 200 with the document {status,
\* directWebhook} in every state of the system (installed or not, handlers
\* suspended or failed), and it changes nothing: credentials, persisted
\* file, registration, remote set, the other handlers, the dispatcher.
C20_HealthAlwaysOk ==
  [][\A t \in Slots :
       ProbeArrives(t)
       => /\ tasks'[t].pc = "done"
          /\ tasks'[t].status = 200
          /\ tasks'[t].resp = [status |-> "ok", directWebhook |-> config.use_direct_webhook]
          /\ tasks'[t].log = <<>>
          /\ \A s \in Slots \ {t} : tasks'[s] = tasks[s]
          /\ StateKept
          /\ UNCHANGED <<config, dispatchVars, serverVars, crashVars>>]_vars

\* a probe was answered while an INSTALL was suspended after a failed call
C20_ProbedDuringInstall ==
  \E t, s \in Slots :
    /\ tasks[t].pc = "done" /\ tasks[t].route = "health" /\ tasks[t].status = 200
    /\ Suspended(s) /\ tasks[s].lc = "INSTALL"
    /\ nfault > 0
    /\ IsInstalled(M)

\* this step is the arrival of a request at the legacy event endpoint
LegacyArrives(t) == tasks[t].pc = "idle" /\ tasks'[t].route = "legacy"

\* the log of a dispatch of event ev to the registered handlers
DispatchLog(ev) == CallHandlers(EventHandlerCount, ev, <<[op |-> "notify", event |-> ev]>>)

\* C21: a request on the legacy event endpoint forwards the parsed event to
\* the dispatcher and is answered 200, a malformed body is answered 400
\* without a dispatch; credentials (in memory and persisted), registration
\* and remote set are unchanged and no remote call is issued.
C21_LegacyForwardsOnly ==
  [][\A t \in Slots :
       LegacyArrives(t)
       => /\ tasks'[t].pc = "done"
          /\ tasks'[t].call = NoCall
          /\ IF tasks'[t].req = Malformed
             THEN tasks'[t].status = 400 /\ tasks'[t].log = <<>>
             ELSE tasks'[t].status = 200 /\ tasks'[t].log = DispatchLog(tasks'[t].req)
          /\ StateKept]_vars

\* an event for a known accessory came in on the legacy endpoint and reached
\* the accessory
C21_LegacyEventDispatched ==
  \E t \in Slots :
    /\ tasks[t].pc = "done" /\ tasks[t].route = "legacy" /\ tasks[t].status = 200
    /\ \E i \in At(tasks[t].log, "processEvent") : tasks[t].log[i].event = tasks[t].req

\* a payload without its token fields: two payloads differ only in their
\* tokens exactly when this gives the same value for both
TokenBlind(data) ==
  IF data = Absent THEN Absent
  ELSE [f \in DOMAIN data \ {"authToken", "refreshToken"} |-> data[f]]

\* status and body the lifecycle endpoint gives to a message of lifecycle lc
\* whose payload, tokens apart, is `blind`
TokenBlindReply(lc, blind) ==
  IF blind = Absent THEN <<400, [statusCode |-> 400]>>
  ELSE IF (lc \in {"INSTALL", "UPDATE"} /\ blind.installedApp = Absent)
          \/ (lc = "EVENT" /\ "events" \notin DOMAIN blind)
  THEN <<400, [error |-> "Invalid request body"]>>
  ELSE CASE lc = "INSTALL" -> <<200, [statusCode |-> 200, installData |-> EmptyObject]>>
         [] lc = "UPDATE" -> <<200, [statusCode |-> 200, updateData |-> EmptyObject]>>
         [] lc = "EVENT" -> <<200, [statusCode |-> 200, eventData |-> EmptyObject]>>

\* the handler of task t has answered a message that carries tokens
TokenMessageAnswered(t) ==
  /\ tasks[t].pc = "done"
  /\ tasks[t].route = "smartapp"
  /\ tasks[t].lc \in {"INSTALL", "UPDATE", "EVENT"}

\* C22: status and body of the response to an INSTALL, UPDATE or EVENT are
\* those determined by the message without its tokens, whatever tokens the
\* message carries and the credentials hold: two runs that differ only in
\* token values get the same responses, and no response echoes a token.
C22_ReplyIgnoresTokens ==
  \A t \in Slots :
    TokenMessageAnswered(t)
    => <<tasks[t].status, tasks[t].resp>>
         = TokenBlindReply(tasks[t].lc, TokenBlind(tasks[t].req.data))

\* two INSTALLs in a row that differ only in their tokens, both answered 200
C22_SameReplyOtherToken ==
  \E t \in Slots :
    /\ TokenMessageAnswered(t)
    /\ tasks[t].lc = "INSTALL"
    /\ tasks[t].status = 200
    /\ lastInstall # Absent
    /\ lastInstall.req.data # tasks[t].req.data
    /\ TokenBlind(lastInstall.req.data) = TokenBlind(tasks[t].req.data)
    /\ authToken # lastInstall.credentials[2]

\* the task has issued a delete-subscriptions call
DeleteIssued(task) == task.call.op = "delete" \/ At(task.log, "delete") # {}

\* C23: a delete-subscriptions call is issued only while an UPDATE is
\* handled (never by setDeviceIds, INSTALL, EVENT or UNINSTALL), and a
\* remote subscription disappears only in the step that answers such a call.
C23_DeleteOnlyInUpdate ==
  [][/\ \A t \in Slots :
          DeleteIssued(tasks'[t])
          => tasks'[t].route = "smartapp" /\ tasks'[t].lc = "UPDATE"
     /\ \A a \in AppIdSet :
          ~(remote[a] \subseteq remote'[a])
          => \E t \in Slots : /\ tasks[t].pc = "delete"
                              /\ tasks[t].lc = "UPDATE"
                              /\ tasks'[t].pc # "delete"]_vars

\* a reconciliation by setDeviceIds found the subscription of a device that
\* is not registered, and left it in place
C23_SyncKeptStaleSubscription ==
  \E t \in Slots :
    /\ tasks[t].pc = "done" /\ tasks[t].route = "setDeviceIds"
    /\ installedAppId \in AppIdSet
    /\ "d3" \notin Range(deviceIds)
    /\ DeviceSub("d3") \in remote[installedAppId]
    /\ \E i \in At(tasks[t].log, "answer") :
         /\ tasks[t].log[i - 1].op = "list"
         /\ tasks[t].log[i].is = "ok"
         /\ DeviceSub("d3") \in tasks[t].log[i].had
    /\ At(tasks[t].log, "create") # {}

\* the handler of task t has gone through the event list of an EVENT
EventListDone(t) ==
  /\ tasks[t].pc = "done"
  /\ tasks[t].route = "smartapp"
  /\ tasks[t].lc = "EVENT"
  /\ tasks[t].req.data # Absent
  /\ "events" \in DOMAIN tasks[t].req.data

\* the device-lifecycle items of an event list whose kind is in `kinds`
LifecycleItems(es, kinds) ==
  SelectSeq(es, LAMBDA e : /\ e.eventType = "DEVICE_LIFECYCLE_EVENT"
                           /\ e.deviceLifecycleEvent # Absent
                           /\ e.deviceLifecycleEvent.lifecycle \in kinds)

\* the consumer invocations of a log for the kinds in `kinds`
LifecycleEntries(log, kinds) ==
  SelectSeq(log, LAMBDA x : x.op = "lifecycle" /\ x.lifecycle \in kinds)

\* every consumer was invoked once per item, in order, with the item's kind,
\* device id and device name
InvokedOncePerItem(items, entries) ==
  LET n == Len(LifecycleHandlers)
  IN /\ Len(entries) = n * Len(items)
     /\ \A j \in DOMAIN items : \A k \in 1..n :
          entries[(j - 1) * n + k]
            = [op |-> "lifecycle", handler |-> LifecycleHandlers[k],
               lifecycle |-> items[j].deviceLifecycleEvent.lifecycle,
               deviceId |-> items[j].deviceLifecycleEvent.deviceId,
               deviceName |-> items[j].deviceLifecycleEvent.deviceName]

\* the ids of the CREATE items of an event list, in order
CreateIds(es) ==
  LET items == LifecycleItems(es, {"CREATE"})
  IN [j \in DOMAIN items |-> items[j].deviceLifecycleEvent.deviceId]

\* the step is one that may change the registration: a registration call
\* arrives, or the subscription call of a CREATE item is answered
RegistrationStep ==
  \E t \in Slots :
    \/ tasks[t].pc = "idle" /\ tasks'[t].route = "setDeviceIds"
    \/ tasks[t].pc = "newdevice" /\ tasks'[t].i > tasks[t].i

\* C24: for the items of kind DELETE, UPDATE, MOVE_FROM and MOVE_TO of an
\* EVENT every lifecycle consumer is invoked exactly once per item with
\* (kind, deviceId, deviceName); the subscription calls of the event loop
\* are those of the CREATE items alone; the registration changes in no step
\* other than a registration call or the answer to a CREATE item's call.
C24_ForwardedWithoutSideEffect ==
  [][/\ \A t \in Slots :
          EventListDone(t)'
          => LET es == tasks'[t].req.data.events
                 log == tasks'[t].log
             IN /\ InvokedOncePerItem(LifecycleItems(es, ForwardedKinds),
                                      LifecycleEntries(log, ForwardedKinds))
                /\ CreatedAt(log, "newdevice") = CreateIds(es)
     /\ deviceIds' # deviceIds => RegistrationStep]_vars

\* a DELETE and a MOVE_TO for a registered device were forwarded by an
\* installed handler: no call, the device still registered
C24_DeleteForwarded ==
  \E t \in Slots :
    /\ EventListDone(t)
    /\ tasks[t].req.data.events = <<LifeEv("DELETE", "d1"), LifeEv("MOVE_TO", "d1")>>
    /\ Len(LifecycleEntries(tasks[t].log, ForwardedKinds)) = 2
    /\ At(tasks[t].log, "create") = {}
    /\ "d1" \in Range(deviceIds)

\* the item is of a known type and carries the payload of that type
Typed(e) ==
  \/ e.eventType = "DEVICE_EVENT" /\ e.deviceEvent # Absent
  \/ e.eventType = "DEVICE_LIFECYCLE_EVENT" /\ e.deviceLifecycleEvent # Absent

\* what the handling of one typed item leaves in the log, remote answers and
\* the accessories' own entries apart
ItemTrace(e) ==
  IF e.eventType = "DEVICE_EVENT"
  THEN <<[op |-> "notify", event |-> ShortEvent(e.deviceEvent)]>>
  ELSE (IF e.deviceLifecycleEvent.lifecycle = "CREATE"
        THEN <<[op |-> "create", deviceId |-> e.deviceLifecycleEvent.deviceId]>>
        ELSE <<>>)
       \o [k \in DOMAIN LifecycleHandlers |->
             [op |-> "lifecycle", handler |-> LifecycleHandlers[k],
              lifecycle |-> e.deviceLifecycleEvent.lifecycle,
              deviceId |-> e.deviceLifecycleEvent.deviceId,
              deviceName |-> e.deviceLifecycleEvent.deviceName]]

RECURSIVE ListTrace(_)
\* the traces of the typed items of an event list, in order
ListTrace(es) ==
  IF es = <<>> THEN <<>>
  ELSE (IF Typed(Head(es)) THEN ItemTrace(Head(es)) ELSE <<>>) \o ListTrace(Tail(es))

\* the entries of the log that the items of the event list have left
LoopTrace(log) ==
  LET own == SelectSeq(log, LAMBDA x : \/ x.op \in {"notify", "lifecycle"}
                                       \/ (x.op = "create" /\ x.pc = "newdevice"))
  IN [j \in DOMAIN own |->
        IF own[j].op = "create" THEN [op |-> "create", deviceId |-> own[j].sub.deviceId]
        ELSE own[j]]

\* C25: an item of an EVENT whose type is neither device event nor device
\* lifecycle event, or whose typed payload is absent, causes no dispatch, no
\* lifecycle notification and no remote call: what the event loop does is
\* what it does for the list without such items, every other item is
\* processed, and the response is 200; the registration changes in no step
\* other than a registration call or the answer to a CREATE item's call.
C25_UntypedItemsIgnored ==
  [][/\ \A t \in Slots :
          EventListDone(t)'
          => /\ tasks'[t].status = 200
             /\ tasks'[t].i = Len(tasks'[t].req.data.events)
             /\ LoopTrace(tasks'[t].log) = ListTrace(tasks'[t].req.data.events)
     /\ deviceIds' # deviceIds => RegistrationStep]_vars

\* an item of unknown type came before a device event, which was dispatched
C25_DispatchedAfterUntyped ==
  \E t \in Slots :
    /\ EventListDone(t)
    /\ tasks[t].req.data.events = <<OtherEv, DevEv("d1", "on")>>
    /\ tasks[t].status = 200
    /\ Len(LoopTrace(tasks[t].log)) = 1
    /\ At(tasks[t].log, "processEvent") # {}

\* a DELETE notification for device d is processed in this step: the
\* lifecycle consumers are told of it
DeleteProcessed(d) ==
  \E t \in Slots :
    \E i \in DOMAIN tasks'[t].log :
      /\ tasks'[t].pc # "idle"
      /\ i > Len(tasks[t].log)
      /\ tasks'[t].log[i].op = "lifecycle"
      /\ tasks'[t].log[i].lifecycle = "DELETE"
      /\ tasks'[t].log[i].deviceId = d

\* C26: across registration calls and lifecycle messages a registered device
\* id stays registered unless a DELETE notification for it is processed, and
\* then it is removed.
C26_RegistrationOnlyGrows ==
  [][\A d \in DeviceIdSet :
       d \in Range(deviceIds) => (d \in Range(deviceIds') <=> ~DeleteProcessed(d))]_vars

\* a long-poll call is posted in this step
PollIssued == poll'.n > poll.n

\* what the head of the loop does next: another poll, or the end of the loop
\* once shutdown is requested
PollsAgain == poll'.pc = (IF shutdown THEN "returned" ELSE "polling") /\ (~shutdown => PollIssued)

\* the polling loop runs exactly in legacy mode before shutdown: in direct
\* mode startService returns without a poll; a poll is issued again after a
\* returned batch and, once the retry wait is over, after a failed poll; no
\* poll is started once shutdown is requested
LoopActivity ==
  /\ config.use_direct_webhook => poll'.n = 0 /\ poll'.pc \in {"off", "returned"}
  /\ PollIssued => ~config.use_direct_webhook /\ ~shutdown
  /\ (poll.pc = "off" /\ poll' # poll /\ ~config.use_direct_webhook) => PollsAgain
  /\ (poll.pc = "polling" /\ poll' # poll)
       => IF poll'.pc = "waiting" THEN ~PollIssued ELSE PollsAgain
  /\ (poll.pc = "waiting" /\ poll' # poll) => PollsAgain
  /\ poll.pc = "returned" => poll' = poll

\* every event of a returned batch went through handleDeviceEvent: each one
\* with a consumer reached it
BatchDispatched ==
  (poll.pc = "polling" /\ poll' # poll /\ poll'.batch # <<>>)
  => Cardinality(At(poll'.log, "processEvent")) = Cardinality(WithConsumer(poll'.batch))

\* C27: the legacy polling loop is active exactly when direct push is
\* disabled and shutdown has not been requested: no poll in direct mode; in
\* legacy mode a poll again after every returned batch and after every
\* failed poll (following the retry wait), every returned event passed
\* through the dispatch path, and no new poll after stopService.
C27_PollingLoopActive == [][LoopActivity /\ BatchDispatched]_vars

\* the handler of task s waits for the answer to a remote call
LongHandlerWaits(s) ==
  Suspended(s) /\ tasks[s].lc \in {"INSTALL", "UPDATE", "EVENT", "CONFIRMATION"}

\* task s waits for the same call after the step
StillWaits(s) == tasks'[s].pc = tasks[s].pc /\ tasks'[s].call = tasks[s].call

\* the request taken up by task t in this step is one whose handler awaits
\* nothing
QuickRequest(t) ==
  \/ tasks'[t].route = "health"
  \/ tasks'[t].route = "smartapp" /\ tasks'[t].lc = "PING"

\* C28: while an INSTALL, UPDATE, EVENT or CONFIRMATION handler waits for a
\* remote call, the server takes up another request (a health probe, a PING
\* or any other), handles it, a PING or probe to its response in the same
\* step, and writes the response, all with the first handler still waiting
\* for its call.
C28_SuspendedDoesNotBlock ==
  [][\A s \in Slots : \A t \in Slots \ {s} :
       LongHandlerWaits(s)
       => /\ (tasks[t].pc = "idle" /\ nreq < MaxReqs /\ isRunning)
               => ENABLED HealthRequest(t)
          /\ (tasks[t].pc = "idle" /\ tasks'[t].pc # "idle")
               => /\ StillWaits(s)
                  /\ tasks'[t].pc = "done" \/ Suspended(t)'
                  /\ QuickRequest(t) => tasks'[t].pc = "done" /\ tasks'[t].status = 200
          /\ (tasks[t].pc = "done" /\ tasks'[t].pc = "idle") => StillWaits(s)]_vars

\* a PING was answered while a CONFIRMATION waited for its fetch
C28_PingDuringConfirmation ==
  \E s, t \in Slots :
    /\ tasks[s].pc = "fetch" /\ tasks[s].lc = "CONFIRMATION"
    /\ Answered200(t, "PING")

\* C29: every lifecycle request eventually receives a response even when an
\* outbound call it makes never answers: a handler that waits for a call
\* (confirmation fetch, list, create or delete) eventually returns.
C29_EveryRequestAnswered ==
  \A t \in Slots :
    (tasks[t].route = "smartapp" /\ Suspended(t)) ~> (tasks[t].pc = "done")

\* the three fields an EVENT writes
Triple == <<installedAppId, authToken, locationId>>

\* the triple a payload carries
TripleOf(data) ==
  <<data.installedApp.installedAppId, data.authToken, data.installedApp.locationId>>

\* the triples that come from one message, or from no installation
WholeTriples == {TripleOf(Cred1), TripleOf(Cred2), <<Null, Null, Null>>}

\* task t takes up an EVENT that carries credentials in this step
CredentialEventArrives(t) ==
  /\ tasks[t].pc = "idle"
  /\ tasks'[t].route = "smartapp"
  /\ tasks'[t].lc = "EVENT"
  /\ CarriesCredentials(tasks'[t].req.data)

\* a lifecycle message that writes or clears credentials is taken up
CredentialWriteStep ==
  \E t \in Slots :
    /\ tasks[t].pc = "idle"
    /\ tasks'[t].route = "smartapp"
    /\ tasks'[t].lc \in {"INSTALL", "UPDATE", "EVENT", "UNINSTALL"}

\* C30: credentials are last-write-wins without tearing: an EVENT that
\* carries credentials stores its whole triple in the step that takes it up,
\* no later step of that or another handler writes a field of the triple, so
\* after any interleaving of EVENT handlers the triple is that of the message
\* whose write ran last, never a mix of two messages.
C30_LastWriteWinsWhole ==
  [][/\ \A t \in Slots :
          CredentialEventArrives(t) => Triple' = TripleOf(tasks'[t].req.data)
     /\ Triple' # Triple => CredentialWriteStep
     /\ Triple' \in WholeTriples]_vars

\* two EVENTs with different credentials in flight: the first, carrying a1,
\* still waits for a call; the second, carrying a2, wrote last
C30_SecondEventWroteLast ==
  \E s, t \in Slots :
    /\ s # t
    /\ tasks[s].lc = "EVENT" /\ Suspended(s)
    /\ TripleOf(tasks[s].req.data) = TripleOf(Cred1)
    /\ tasks[t].lc = "EVENT" /\ tasks[t].pc = "done"
    /\ TripleOf(tasks[t].req.data) = TripleOf(Cred2)
    /\ Triple = TripleOf(Cred2)

(***************************************************************************)
(* C31: failures of the storage directory.                                 *)
(***************************************************************************)
\* an INSTALL or UPDATE is taken up and its write of the credentials fails
FailedWriteArrives(t) ==
  /\ tasks[t].pc = "idle"
  /\ tasks'[t].route = "smartapp"
  /\ tasks'[t].lc \in {"INSTALL", "UPDATE"}
  /\ nfault' = nfault + 1

\* the handler goes on as after a write that succeeded, the file alone is as
\* it was: the credentials of the message are held and a subscription call
\* is under way
ProceedsUnsaved(t) ==
  LET request == tasks'[t].req
      saved == HandleSmartAppRequest(M, t, Json(request), TRUE)
  IN /\ Becomes([saved EXCEPT !.disk = disk])
     /\ installedAppId' = request.data.installedApp.installedAppId
     /\ authToken' = request.data.authToken
     /\ refreshToken' = request.data.refreshToken
     /\ locationId' = request.data.installedApp.locationId
     /\ tasks'[t].pc \in {"create", "delete", "lifecycle"}

\* the file does not hold the credentials the handler holds
Unsaved ==
  disk = Absent
  \/ <<Get(disk, "installedAppId"), Get(disk, "authToken")>> # <<installedAppId, authToken>>

\* an INSTALL or UPDATE whose credentials did not reach the file has ended:
\* it has issued one create per registered id, then the lifecycle
\* subscription's, and is answered 200
UnsavedInstallOver(t) ==
  (/\ tasks[t].pc = "done"
   /\ tasks[t].lc \in {"INSTALL", "UPDATE"}
   /\ Unsaved)
  => /\ tasks[t].status = 200
     /\ CreatedAt(tasks[t].log, "create") = deviceIds
     /\ At(tasks[t].log, "create") # {}
     /\ \E i \in At(tasks[t].log, "create") : tasks[t].log[i].pc = "lifecycle"

\* the process starts and its read of the credentials file fails
FailedReadStart(t) ==
  /\ \A s \in Slots : tasks[s].pc = "idle"
  /\ tasks'[t].route = "setDeviceIds"
  /\ nfault' = nfault + 1

\* a call of the crash-loop manager whose read of the log failed works on the
\* empty log: nothing is detected, and the recorded entry is the only one
CrashReadFailure(k) ==
  (crash[k].op # "none" /\ ~crash[k].readOk)
  => /\ crash[k].op \in {"read", "detect"} => crash[k].crashes = <<>>
     /\ crash[k].op = "detected" => crash[k].result = FALSE
     /\ crash[k].op = "record" => Len(crash[k].crashes) = 1

\* C31: a failure of durable storage fails no operation.  When the write of
\* the credentials fails in INSTALL or UPDATE the handler holds the new
\* credentials, runs the subscription creation and answers 200; when the read
\* of the credentials fails at startup the handler starts not installed; when
\* the read of the crash log fails the log is taken as empty.
C31_StorageFailureContained ==
  [][/\ \A t \in Slots : FailedWriteArrives(t) => ProceedsUnsaved(t)
     /\ \A t \in Slots : UnsavedInstallOver(t)'
     /\ \A t \in Slots :
          FailedReadStart(t)
          => /\ installedAppId' = Null /\ authToken' = Null
             /\ disk' = disk
             /\ tasks'[t].pc = "done" /\ tasks'[t].log = <<>>
     /\ \A k \in CrashSlots : CrashReadFailure(k)']_vars

\* an INSTALL is answered 200 with its subscriptions created although the
\* credentials file could not be written
C31_InstalledWithoutFile ==
  \E t \in Slots :
    /\ Answered200(t, "INSTALL")
    /\ nfault > 0
    /\ disk = Absent
    /\ authToken = "t1" /\ installedAppId = "a1"
    /\ DeviceSub("d1") \in remote["a1"]

(***************************************************************************)
(* C32: when setDeviceIds calls SmartThings.                               *)
(***************************************************************************)
\* installed: the installed app id and the token are both there
HasCredentials == ~MissingCredentials(M)

\* setDeviceIds is called
SetDeviceIdsArrives(t) ==
  /\ tasks[t].pc = "idle"
  /\ tasks'[t].route = "setDeviceIds"

\* an EVENT whose eventData carries credentials is taken up
CredentialedEventArrives(t) ==
  /\ tasks[t].pc = "idle"
  /\ tasks'[t].route = "smartapp" /\ tasks'[t].lc = "EVENT"
  /\ tasks'[t].req.data # Absent
  /\ CarriesCredentials(tasks'[t].req.data)

\* the remote calls of a finished setDeviceIds: none, or the list, the
\* creates of the ids that the list did not return (a list that failed
\* returns none), and the lifecycle subscription's
ReconciledThenLifecycle(t) ==
  LET log == tasks[t].log
      calls == SelectSeq(log, LAMBDA e : e.op \in {"list", "create", "delete"})
  IN (tasks[t].pc = "done" /\ tasks[t].route = "setDeviceIds" /\ calls # <<>>)
     => /\ calls[1].op = "list"
        /\ \A j \in 2..Len(calls) : calls[j].op = "create"
        /\ calls[Len(calls)].sub = LifecycleSub
        /\ \A j \in 2..(Len(calls) - 1) : calls[j].sub.sourceType = "DEVICE"
        /\ \A i \in At(log, "filter") :
             [j \in 1..(Len(calls) - 2) |-> calls[j + 1].sub.deviceId]
               = SeqFilter(log[i].ids,
                           IF log[i - 1].is = "ok" THEN DeviceIdsOf(log[i - 1].had)
                           ELSE {})

\* C32: setDeviceIds issues remote calls exactly when the handler is installed
\* and the list is not empty, and then runs the reconciliation of the missing
\* ids followed by the creation of the lifecycle subscription; not installed,
\* it issues no call, and the first EVENT that carries credentials starts the
\* reconciliation of the registered ids.
C32_SetDeviceIdsCallsWhenInstalled ==
  [][/\ \A t \in Slots :
          SetDeviceIdsArrives(t)
          => /\ Suspended(t)' <=> (HasCredentials /\ Len(deviceIds') > 0)
             /\ Suspended(t)' => tasks'[t].pc = "list"
             /\ ~Suspended(t)' => tasks'[t].log = <<>>
     /\ \A t \in Slots : ReconciledThenLifecycle(t)'
     /\ \A t \in Slots :
          (CredentialedEventArrives(t) /\ ~HasCredentials /\ Len(deviceIds) > 0)
          => tasks'[t].pc = "list"]_vars

(***************************************************************************)
(* C33: the delivery of the device events of an EVENT message.             *)
(***************************************************************************)
\* the device-state items of an event list, in order
StateItems(es) ==
  SelectSeq(es, LAMBDA e : e.eventType = "DEVICE_EVENT" /\ e.deviceEvent # Absent)

\* what the consumers are to receive for an event list: for each device-state
\* item whose device has a consumer, in order, that consumer and the five
\* fields of the item
Deliveries(es) ==
  LET due == SelectSeq(StateItems(es),
                       LAMBDA e : ConsumersOf(e.deviceEvent.deviceId) # {})
  IN [j \in DOMAIN due |->
        [consumer |-> due[j].deviceEvent.deviceId,
         deviceId |-> due[j].deviceEvent.deviceId,
         componentId |-> due[j].deviceEvent.componentId,
         capability |-> due[j].deviceEvent.capability,
         attribute |-> due[j].deviceEvent.attribute,
         value |-> due[j].deviceEvent.value]]

\* what the consumers have received according to the log
Delivered(log) ==
  LET calls == SelectSeq(log, LAMBDA x : x.op = "processEvent")
  IN [j \in DOMAIN calls |->
        [consumer |-> devices[calls[j].device],
         deviceId |-> Get(calls[j].event, "deviceId"),
         componentId |-> Get(calls[j].event, "componentId"),
         capability |-> Get(calls[j].event, "capability"),
         attribute |-> Get(calls[j].event, "attribute"),
         value |-> Get(calls[j].event, "value")]]

\* C33: each device-state item of an EVENT message is delivered exactly once
\* to the consumer registered for its deviceId, with the deviceId,
\* componentId, capability, attribute and value of the item, in the order of
\* the event list, a repeated item as often as it occurs, and to no consumer
\* of another deviceId.
C33_EachItemDeliveredOnce ==
  \A t \in Slots :
    EventListDone(t)
    => Delivered(tasks[t].log) = Deliveries(tasks[t].req.data.events)

\* the same item twice in one message reached its consumer twice
C33_RepeatedItemDeliveredTwice ==
  \E t \in Slots :
    /\ EventListDone(t)
    /\ tasks[t].req.data.events = <<DevEv("d1", "on"), DevEv("d1", "on")>>
    /\ Len(Delivered(tasks[t].log)) = 2
    /\ tasks[t].status = 200

(***************************************************************************)
(* C34: the first-credential reconciliation runs once.                     *)
(***************************************************************************)
\* the EVENT handler in slot t has run the reconciliation of the first
\* credentials (its log shows the list call)
Reconciles(task) ==
  /\ task.route = "smartapp" /\ task.lc = "EVENT"
  /\ \E i \in At(task.log, "list") : TRUE

\* an EVENT is taken up in slot t and starts the reconciliation
ReconciliationStarts(t) ==
  /\ tasks[t].pc = "idle"
  /\ Reconciles(tasks'[t])

\* C34: of the EVENT messages handled while the handler is not installed, one
\* at a time or with their handlers overlapping, at most one runs the
\* first-credential reconciliation: the handler that finds the credentials
\* absent has written the new ones before it suspends, so no second handler
\* finds them absent.
C34_OneFirstReconciliation ==
  [][/\ \A t \in Slots :
          ReconciliationStarts(t)
          => /\ ~IsInstalled(M)
             /\ IsInstalled(M)'
             /\ \A s \in Slots \ {t} : ~Reconciles(tasks[s])
     /\ \A t \in Slots :
          (tasks[t].pc = "idle" /\ tasks'[t].lc = "EVENT"
           /\ CarriesCredentials(tasks'[t].req.data))
          => IsInstalled(M)'
     /\ IsInstalled(M) => IsInstalled(M)'
     /\ Cardinality({t \in Slots : Reconciles(tasks'[t])}) <= 1]_vars

\* a second EVENT with credentials was taken up while the first one's
\* reconciliation was suspended, and did not reconcile
C34_SecondEventDidNotReconcile ==
  /\ Reconciles(tasks["s1"]) /\ Suspended("s1")
  /\ tasks["s2"].lc = "EVENT" /\ tasks["s2"].pc = "done"
  /\ CarriesCredentials(tasks["s2"].req.data)
  /\ tasks["s2"].inst
  /\ ~Reconciles(tasks["s2"])

(***************************************************************************)
(* C35: subscription calls and absent credentials.                         *)
(***************************************************************************)
\* the subscription calls a handler has issued so far
SubscriptionCalls(log) ==
  SelectSeq(log, LAMBDA e : e.op \in {"list", "create", "delete"})

\* C35: no list, create or delete call is issued while installedAppId or
\* authToken is absent: every call was built from an installed app id and a
\* token that were there when it was issued, also when an UNINSTALL is handled
\* between two create calls of a suspended handler, and for a CREATE item of
\* an EVENT that carries no credentials.
C35_NoCallWithoutCredentials ==
  \A t \in Slots :
    LET calls == SubscriptionCalls(tasks[t].log)
    IN \A j \in DOMAIN calls : Truthy(calls[j].app) /\ Truthy(calls[j].tok)

(***************************************************************************)
(* C36: a message answered 400 has no effect.                              *)
(***************************************************************************)
\* the handler of slot t answers its lifecycle message with 400 in this step
Rejected(t) ==
  /\ tasks[t].pc # "done"
  /\ tasks'[t].pc = "done"
  /\ tasks'[t].route = "smartapp"
  /\ tasks'[t].status = 400

\* C36: a lifecycle message that is answered 400 leaves the credentials, the
\* device registration and the remote subscriptions as they were and
\* dispatches no event: it is answered in the step it arrives in, without a
\* remote call and without a consumer being invoked.
C36_RejectedHasNoEffect ==
  [][\A t \in Slots :
       Rejected(t)
       => /\ tasks[t].pc = "idle"
          /\ tasks'[t].log = <<>>
          /\ UNCHANGED <<installedAppId, authToken, refreshToken, locationId>>
          /\ UNCHANGED <<deviceIds, remote>>]_vars

(***************************************************************************)
(* C37: the device registration holds each id once.                        *)
(***************************************************************************)
\* C37: after any sequence of setDeviceIds calls and EVENT messages, CREATE
\* notifications for an id notified before or registered already included,
\* every device id occurs at most once in the registration, and the create
\* loop of INSTALL, UPDATE and reconciliation issues at most one create call
\* per device.
C37_RegistrationIsSet ==
  /\ \A d \in DeviceIdSet : Occ(deviceIds, d) <= 1
  /\ \A t \in Slots : \A d \in DeviceIdSet :
       Occ(CreatedAt(tasks[t].log, "create"), d) <= 1

(***************************************************************************)
(* C38: overlapping recordPotentialCrash calls.                            *)
(***************************************************************************)
\* C38: the crash log is append-only also when recordPotentialCrash calls
\* overlap: once every call has completed, with no read or write having
\* failed and fewer than MAX_LOG_ENTRIES entries recorded, the file holds
\* every recorded entry, as often as it was recorded.
C38_OverlappingRecordsKept ==
  (NoRecordInFlight /\ ~ioFailed /\ Len(recorded) < MAX_LOG_ENTRIES)
  => \A i \in DOMAIN recorded :
       Occ(crashLog.data, recorded[i]) = Occ(recorded, recorded[i])

(***************************************************************************)
(* C39: detection and crashes of other kinds.                              *)
(***************************************************************************)
\* C39: when at least maxCrashes (at most MAX_LOG_ENTRIES) crashes of
\* relevant kinds have been recorded within the time window, with no read or
\* write of the log having failed, isCrashLoopDetected returns true, however
\* many crashes of other kinds were recorded between them.
C39_DetectedDespiteOtherKinds ==
  \A k \in CrashSlots :
    (/\ crash[k].op = "detected"
     /\ ~ioFailed /\ crash[k].readOk
     /\ crash[k].config.maxCrashes <= MAX_LOG_ENTRIES
     /\ Len(RecentRelevantCrashes(recorded, crash[k].config, crash[k].at))
          >= crash[k].config.maxCrashes
     /\ recorded # <<>>)
    => crash[k].result = TRUE

====
